---- MODULE Spec2Model ----
(***************************************************************************)
(* Activity data pipeline of the tracker: per-day heartbeat storage with   *)
(* the may_be_inactive correction (ActivityStorage), the aggregation cache *)
(* (AggregationService), the interval scheduler (IntervalScheduler), the   *)
(* capture coordinator (ActivityTracker), the heartbeat generator          *)
(* (HeartbeatManager) and the facade that wires them (ActivityFacade).     *)
(*                                                                         *)
(* Positions in a heartbeat sequence are 1-based here; the source's index  *)
(* i is position i + 1, and the source's lastActiveIndex = -1 is 0.        *)
(***************************************************************************)
EXTENDS Integers, Sequences, FiniteSets, TLC

\* ------------------------------------------------------------------ bounds
\* Longest heartbeat sequence drawn as an input of the pure operations.
MaxLen == 3
\* Largest timestamp of a drawn heartbeat; the new sample's timestamp ranges to MaxTs + 1.
MaxTs == 3

\* ------------------------------------------------------------------- types
Activities == {"active", "inactive", "may_be_inactive"}

NoAppWindow == [app |-> "", title |-> ""]

\* HeartbeatData values a capture source delivers.
Samples ==
  { [userActivity |-> "active", appWindow |-> [app |-> "Chrome", title |-> "Mail"]],
    [userActivity |-> "may_be_inactive", appWindow |-> [app |-> "Code", title |-> "main.ts"]],
    [userActivity |-> "inactive", appWindow |-> NoAppWindow] }

\* The samples delivered to the running system.
SysSamples == { d \in Samples : d.userActivity # "active" }

Heartbeat(ts, d) == [timestamp |-> ts, data |-> d]

\* All sequences over S of length at most n.
SeqsUpTo(S, n) == UNION { [1..k -> S] : k \in 0..n }

\* ------------------------------------------ ActivityStorage.handleMayBeInactive
\* heartbeats.some(hb => hb.data?.userActivity === 'may_be_inactive')
hasMayBeInactive(heartbeats) ==
  \E i \in 1..Len(heartbeats) : heartbeats[i].data.userActivity = "may_be_inactive"

\* The backward scan: the last position whose heartbeat is active and strictly
\* before currentTimestamp; 0 when there is none.
lastActiveIndex(heartbeats, currentTimestamp) ==
  LET hits == { i \in 1..Len(heartbeats) :
                  /\ heartbeats[i].timestamp < currentTimestamp
                  /\ heartbeats[i].data.userActivity = "active" }
  IN IF hits = {} THEN 0 ELSE CHOOSE i \in hits : \A j \in hits : j <= i

\* The forward loop's break: the first position after `from` whose heartbeat is at
\* or after currentTimestamp; Len + 1 when the loop runs to the end.
breakIndex(heartbeats, currentTimestamp, from) ==
  LET stops == { i \in (from + 1)..Len(heartbeats) :
                   heartbeats[i].timestamp >= currentTimestamp }
  IN IF stops = {} THEN Len(heartbeats) + 1
     ELSE CHOOSE i \in stops : \A j \in stops : i <= j

\* A mutant of rewriteInactive: the replacement object is built without spreading
\* the heartbeat's existing data.
rewriteInactive_dropData(hb) ==
  [timestamp |-> hb.timestamp,
   data |-> [userActivity |-> "inactive", appWindow |-> NoAppWindow]]

\* { ...hb, data: { ...existingData, userActivity: 'inactive' } }
rewriteInactive(hb) ==
  [hb EXCEPT !.data.userActivity = "inactive"]

\* A mutant of handleMayBeInactive: the forward loop stops after its first rewrite.
handleMayBeInactive_firstOnly(heartbeats, currentTimestamp, heartbeatData) ==
  IF Len(heartbeats) = 0 \/ heartbeatData.userActivity # "inactive"
  THEN heartbeats
  ELSE IF ~hasMayBeInactive(heartbeats)
  THEN heartbeats
  ELSE LET la == lastActiveIndex(heartbeats, currentTimestamp)
           br == breakIndex(heartbeats, currentTimestamp, la)
           cand == { i \in (la + 1)..(br - 1) :
                       heartbeats[i].data.userActivity = "may_be_inactive" }
       IN [i \in 1..Len(heartbeats) |->
             IF i \in cand /\ \A j \in cand : i <= j
             THEN rewriteInactive(heartbeats[i])
             ELSE heartbeats[i]]

handleMayBeInactive(heartbeats, currentTimestamp, heartbeatData) ==
  IF Len(heartbeats) = 0 \/ heartbeatData.userActivity # "inactive"
  THEN heartbeats
  ELSE IF ~hasMayBeInactive(heartbeats)
  THEN heartbeats
  ELSE LET la == lastActiveIndex(heartbeats, currentTimestamp)
           br == breakIndex(heartbeats, currentTimestamp, la)
       IN [i \in 1..Len(heartbeats) |->
             IF /\ i > la
                /\ i < br
                /\ heartbeats[i].data.userActivity = "may_be_inactive"
             THEN rewriteInactive(heartbeats[i])
             ELSE heartbeats[i]]

\* ------------------------------------------------ ActivityState (in-memory store)
\* The store's days map is a function from the day keys that have a record to the
\* day's heartbeat sequence.
EmptyDays == [k \in {} |-> <<>>]

ActivityState_getHeartbeats(dayMap, dateKey) ==
  IF dateKey \in DOMAIN dayMap THEN dayMap[dateKey] ELSE <<>>

ActivityState_setHeartbeats(dayMap, dateKey, heartbeats) ==
  [k \in (DOMAIN dayMap) \cup {dateKey} |->
     IF k = dateKey THEN heartbeats ELSE dayMap[k]]

ActivityState_getFullStoreData(dayMap) ==
  [version |-> 1, days |-> dayMap]

\* ------------------------------------------------ ActivityStorage.addHeartbeat
\* A mutant of ActivityStorage_addHeartbeat: the correction's result is stored and
\* the new heartbeat is not pushed in the inactive branch.
ActivityStorage_addHeartbeat_noPush(dayMap, timestamp, heartbeatData, dateKey) ==
  LET dayHeartbeats == ActivityState_getHeartbeats(dayMap, dateKey)
      newHeartbeat == Heartbeat(timestamp, heartbeatData)
  IN IF heartbeatData.userActivity = "inactive"
     THEN ActivityState_setHeartbeats(dayMap, dateKey,
            handleMayBeInactive(dayHeartbeats, timestamp, heartbeatData))
     ELSE ActivityState_setHeartbeats(dayMap, dateKey,
            Append(dayHeartbeats, newHeartbeat))

\* The days map after addHeartbeat(timestamp, heartbeatData, dateKey).
ActivityStorage_addHeartbeat(dayMap, timestamp, heartbeatData, dateKey) ==
  LET dayHeartbeats == ActivityState_getHeartbeats(dayMap, dateKey)
      newHeartbeat == Heartbeat(timestamp, heartbeatData)
  IN IF heartbeatData.userActivity = "inactive"
     THEN ActivityState_setHeartbeats(dayMap, dateKey,
            Append(handleMayBeInactive(dayHeartbeats, timestamp, heartbeatData),
                   newHeartbeat))
     ELSE ActivityState_setHeartbeats(dayMap, dateKey,
            Append(dayHeartbeats, newHeartbeat))

\* ------------------------------------------------ TimelineGenerator (aggregator)
MsPerMinute == 60000

AggregationIntervals == {5, 10, 15}

\* Classification of one heartbeat: inactive wins over any appWindow payload,
\* may_be_inactive counts as active.
eventType(hb) ==
  IF hb.data.userActivity = "inactive" THEN "inactive" ELSE "appWindow"

\* Consecutive heartbeats merge when they classify alike and, for appWindow
\* events, share app and title.
mergeable(a, b) ==
  /\ eventType(a) = eventType(b)
  /\ eventType(a) = "appWindow" => a.data.appWindow = b.data.appWindow

\* One event per run of mergeable heartbeats: the first heartbeat's timestamp, one
\* nominal interval per heartbeat of the run.
generateTimelineEvents(heartbeats, intervalMinutes) ==
  LET n == Len(heartbeats)
      starts == { i \in 1..n : i = 1 \/ ~mergeable(heartbeats[i - 1], heartbeats[i]) }
      nth(k) == CHOOSE s \in starts : Cardinality({ x \in starts : x <= s }) = k
      runEnd(s) == IF \E x \in starts : x > s
                   THEN (CHOOSE x \in starts : x > s /\ \A y \in starts : y > s => x <= y) - 1
                   ELSE n
      event(s) == [timestamp |-> heartbeats[s].timestamp,
                   duration |-> (runEnd(s) - s + 1) * intervalMinutes * MsPerMinute,
                   type |-> eventType(heartbeats[s]),
                   data |-> IF eventType(heartbeats[s]) = "appWindow"
                            THEN heartbeats[s].data.appWindow ELSE NoAppWindow]
  IN [k \in 1..Cardinality(starts) |-> event(nth(k))]

RECURSIVE sumDurations(_, _)
\* Sum of the durations of the events whose index is in `idx`.
sumDurations(events, idx) ==
  IF idx = {} THEN 0
  ELSE LET i == CHOOSE x \in idx : TRUE
       IN events[i].duration + sumDurations(events, idx \ {i})

calculateSummary(events) ==
  LET all == 1..Len(events)
      ofType(t) == { i \in all : events[i].type = t }
      apps == { events[i].data.app : i \in ofType("appWindow") }
  IN [activeTrackingDuration |-> sumDurations(events, all),
      totalActiveDuration |-> sumDurations(events, ofType("appWindow")),
      totalInactiveDuration |-> sumDurations(events, ofType("inactive")),
      totalMeetingDuration |-> sumDurations(events, ofType("teamsMeeting")),
      appUsage |-> [a \in apps |->
                      sumDurations(events, { i \in ofType("appWindow") :
                                               events[i].data.app = a })]]

\* ------------------------------------------------------- AggregationService
ZeroSummary ==
  [activeTrackingDuration |-> 0, totalActiveDuration |-> 0,
   totalInactiveDuration |-> 0, totalMeetingDuration |-> 0, appUsage |-> <<>>]

\* this.activityStorage.getDayData(dateKey)?.heartbeats || []
ActivityStorage_getDayHeartbeats(dayMap, dateKey) ==
  ActivityState_getHeartbeats(dayMap, dateKey)

\* A mutant of aggregateDayEntry: the summary is not calculated from the events.
aggregateDayEntry_noSummary(dayMap, dateKey, intervalMinutes) ==
  [summary |-> ZeroSummary,
   timelineEvents |->
     generateTimelineEvents(ActivityStorage_getDayHeartbeats(dayMap, dateKey),
                            intervalMinutes)]

\* The entry aggregateDay(dateKey) puts in the cache.
aggregateDayEntry(dayMap, dateKey, intervalMinutes) ==
  LET timelineEvents ==
        generateTimelineEvents(ActivityStorage_getDayHeartbeats(dayMap, dateKey),
                               intervalMinutes)
  IN [summary |-> calculateSummary(timelineEvents), timelineEvents |-> timelineEvents]

\* The entry getAggregatedData(dateKey) builds on a cache miss.
cacheMissEntry(dayMap, dateKey, intervalMinutes) ==
  [summary |-> ZeroSummary,
   timelineEvents |->
     generateTimelineEvents(ActivityStorage_getDayHeartbeats(dayMap, dateKey),
                            intervalMinutes)]

\* ---------------------------------------------------------------- the system
\* Bounds of the system model: the clock runs over 0..MaxTime, a calendar day lasts
\* TicksPerDay clock values, the store holds at most MaxHb heartbeats and at most
\* MaxInFlight sample collections are awaited at once.
MaxTime == 2
TicksPerDay == 2
MaxHb == 2
MaxInFlight == 1

DefaultAggregationInterval == 15
InvalidInterval == 7

\* DateManager.getDateKey: the calendar day of a timestamp.
getDateKey(timestamp) == timestamp \div TicksPerDay

DayKeys == 0..getDateKey(MaxTime)

VARIABLES
  useMockData,         \* ActivityFacade.useMockData = ActivityStorage.options.useMockData
  trackerUseMockData,  \* ActivityTracker.useMockData
  callbacksSet,        \* ActivityFacade.setCallbacks has installed the subscribers
  days,                \* ActivityState: day key -> heartbeat sequence
  file,                \* the store file: <<>> when absent, else <<StoreData>>
  aggregationInterval, \* TimelineGenerator.aggregationInterval
  aggregationCache,    \* AggregationService.aggregationCache: day key -> entry
  isTracking,          \* ActivityTracker.isTracking
  currentDayKey,       \* ActivityTracker.currentDayKey
  schedRunning,        \* IntervalScheduler.isRunning
  schedTimer,          \* IntervalScheduler.timerId holds a pending timeout
  schedInterval,       \* IntervalScheduler.intervalMillis, in minutes
  hbInitialized,       \* HeartbeatManager.isInitialized
  hbRunning,           \* HeartbeatManager.isRunning
  hbInFlight,          \* generateHeartbeat calls awaiting collectHeartbeatData, each
                       \* with whether the coordinator was tracking when it began
  now,                 \* Date.now()
  trace,               \* the calls the last handler made, in order
  pIn,                 \* input drawn for the pure operations
  pOut,                \* their result
  sched,               \* an IntervalScheduler on its own, with its pending timeouts
                       \* and the position of its callback
  storage,             \* an ActivityStorage on its own, with its ActivityState, its
                       \* clock and the files it reaches
  adapter,             \* a StorageAdapter on its own, with the file at its path
  collector            \* HeartbeatManager.collectHeartbeatData on its own, with the
                       \* watchers' partial samples

facadeVars == <<useMockData, trackerUseMockData, callbacksSet>>
storeVars == <<days, file>>
aggVars == <<aggregationInterval, aggregationCache>>
trackerVars == <<isTracking, currentDayKey>>
schedVars == <<schedRunning, schedTimer, schedInterval>>
hbVars == <<hbInitialized, hbRunning, hbInFlight>>
pureVars == <<pIn, pOut>>
unitVars == <<sched, storage, adapter, collector>>
vars == <<facadeVars, storeVars, aggVars, trackerVars, schedVars, hbVars, now, trace,
          pureVars, unitVars>>

\* ---- the calls a handler makes, recorded in order
Ev(op, day, flag, snap, agg) ==
  [op |-> op, day |-> day, flag |-> flag, agg |-> agg]
EvCall(op) == Ev(op, -1, FALSE, <<>>, <<>>)
EvDay(op, day) == Ev(op, day, FALSE, <<>>, <<>>)
EvFlag(op, flag) == Ev(op, -1, flag, <<>>, <<>>)
\* saveToDisk called; flag: the file was written.
EvSave(written) == Ev("saveToDisk", -1, written, <<>>, <<>>)
EvReturn(day, entry) == Ev("return", day, FALSE, <<>>, <<entry>>)

totalHeartbeats(dayMap) ==
  LET RECURSIVE count(_)
      count(S) == IF S = {} THEN 0
                  ELSE LET k == CHOOSE x \in S : TRUE
                       IN Len(dayMap[k]) + count(S \ {k})
  IN count(DOMAIN dayMap)

\* ---- ActivityStorage.saveToDisk: the file afterwards; ok: the write succeeds.
ActivityStorage_saveToDisk(f, dayMap, ok) ==
  IF useMockData THEN f
  ELSE IF ok THEN <<ActivityState_getFullStoreData(dayMap)>>
  ELSE f

saveWritten(ok) == ~useMockData /\ ok

\* ---- ActivityFacade.constructor (with ActivityStorage.constructor and the
\* ActivityTracker it builds with three arguments, so that the tracker's own
\* useMockData keeps its default). The store starts without heartbeats.
InitialStores == {EmptyDays}

FacadeInit ==
  /\ useMockData \in BOOLEAN
  /\ trackerUseMockData = FALSE
  /\ callbacksSet = FALSE
  /\ days \in InitialStores
  /\ \/ /\ ~useMockData
        /\ file = <<ActivityState_getFullStoreData(days)>>
     \/ /\ ~useMockData
        /\ days = EmptyDays
        /\ file = <<>>
     \/ /\ useMockData
        /\ file = <<>>
  /\ aggregationInterval = DefaultAggregationInterval
  /\ aggregationCache = EmptyDays
  /\ isTracking = FALSE
  /\ now = 0
  /\ currentDayKey = getDateKey(now)
  /\ schedRunning = FALSE
  /\ schedTimer = FALSE
  /\ schedInterval = aggregationInterval
  /\ hbInitialized = FALSE
  /\ hbRunning = FALSE
  /\ hbInFlight = <<>>
  /\ trace = <<>>

NoPureIn == [days |-> EmptyDays, t |-> 0, d |-> [userActivity |-> "inactive", appWindow |-> NoAppWindow]]
NoPureOut == [op |-> "none", once |-> <<>>, twice |-> <<>>, days |-> EmptyDays]

\* ---- IntervalScheduler on its own. timer: the delay of the pending timeout that
\* timerId refers to (0: timerId is null or refers to a timeout that has fired);
\* orphans: pending timeouts that timerId no longer refers to, which no
\* clearTimeout can reach; inCallback: the timeout handler is inside callback().
IntervalScheduler_new(intervalMinutes) ==
  [isRunning |-> FALSE, timer |-> 0, intervalMillis |-> intervalMinutes * MsPerMinute,
   orphans |-> 0, inCallback |-> FALSE]

\* this.timerId = setTimeout(..., this.intervalMillis): timerId is overwritten, a
\* timeout it referred to stays pending.
scheduleNext(s) ==
  IF ~s.isRunning THEN s
  ELSE [s EXCEPT !.timer = s.intervalMillis,
                 !.orphans = @ + (IF s.timer # 0 THEN 1 ELSE 0)]

start(s) ==
  IF s.isRunning THEN s ELSE scheduleNext([s EXCEPT !.isRunning = TRUE])

pause(s) ==
  IF ~s.isRunning THEN s ELSE [s EXCEPT !.isRunning = FALSE, !.timer = 0]

setInterval(s, intervalMinutes) ==
  LET wasRunning == s.isRunning
      paused == IF wasRunning THEN pause(s) ELSE s
      updated == [paused EXCEPT !.intervalMillis = intervalMinutes * MsPerMinute]
  IN IF wasRunning THEN start(updated) ELSE updated

cleanup(s) == pause(s)

\* The timeouts pending in the event loop.
pendingTimers(s) == (IF s.timer # 0 THEN 1 ELSE 0) + s.orphans

\* The units that are modelled on their own are not built.
UnitsNotBuilt ==
  /\ storage = <<>>
  /\ adapter = <<>>
  /\ collector = <<>>

Init ==
  /\ FacadeInit
  /\ pIn = NoPureIn
  /\ pOut = NoPureOut
  /\ sched = IntervalScheduler_new(DefaultAggregationInterval)
  /\ UnitsNotBuilt

\* ---- ActivityFacade.setCallbacks
SetCallbacks ==
  /\ callbacksSet' = TRUE
  /\ useMockData' = useMockData
  /\ trackerUseMockData' = trackerUseMockData
  /\ trace' = <<EvCall("setCallbacks")>>
  /\ UNCHANGED <<storeVars, aggVars, trackerVars, schedVars, hbVars, now, pureVars, unitVars>>

\* ---- IntervalScheduler.start / pause: <<isRunning, timer pending>> afterwards
IntervalScheduler_start(running, timer) ==
  IF running THEN <<running, timer>> ELSE <<TRUE, TRUE>>

IntervalScheduler_pause(running, timer) ==
  IF ~running THEN <<running, timer>> ELSE <<FALSE, FALSE>>

\* ---- ActivityTracker.startTracking
\* A mutant of StartTracking: the guard on isTracking is missing.
StartTracking_noGuard ==
  /\ isTracking' = TRUE
  /\ currentDayKey' = getDateKey(now)
  /\ IF ~trackerUseMockData
     THEN /\ schedRunning' = IntervalScheduler_start(schedRunning, schedTimer)[1]
          /\ schedTimer' = IntervalScheduler_start(schedRunning, schedTimer)[2]
     ELSE UNCHANGED <<schedRunning, schedTimer>>
  /\ trace' = <<EvCall("startTracking")>>
              \o (IF ~trackerUseMockData THEN <<EvCall("scheduler.start")>> ELSE <<>>)
              \o (IF callbacksSet THEN <<EvFlag("onTrackingStatusChange", TRUE)>>
                  ELSE <<>>)
  /\ UNCHANGED <<facadeVars, storeVars, aggVars, schedInterval, hbVars, now,
                 pureVars, unitVars>>

StartTracking ==
  IF isTracking
  THEN /\ trace' = <<EvCall("startTracking")>>
       /\ UNCHANGED <<facadeVars, storeVars, aggVars, trackerVars, schedVars, hbVars,
                      now, pureVars, unitVars>>
  ELSE /\ isTracking' = TRUE
       /\ currentDayKey' = getDateKey(now)
       /\ IF ~trackerUseMockData
          THEN /\ schedRunning' = IntervalScheduler_start(schedRunning, schedTimer)[1]
               /\ schedTimer' = IntervalScheduler_start(schedRunning, schedTimer)[2]
          ELSE UNCHANGED <<schedRunning, schedTimer>>
       /\ trace' = <<EvCall("startTracking")>>
                   \o (IF ~trackerUseMockData THEN <<EvCall("scheduler.start")>> ELSE <<>>)
                   \o (IF callbacksSet THEN <<EvFlag("onTrackingStatusChange", TRUE)>>
                       ELSE <<>>)
       /\ UNCHANGED <<facadeVars, storeVars, aggVars, schedInterval, hbVars, now,
                      pureVars, unitVars>>

\* ---- ActivityTracker.pauseTracking
\* A mutant of pauseTrackingCalls: the persist comes before the Scheduler's pause.
pauseTrackingCalls_saveFirst(ok) ==
  (IF ~trackerUseMockData THEN <<EvSave(saveWritten(ok))>> ELSE <<>>)
  \o <<EvCall("scheduler.pause")>>
  \o (IF callbacksSet THEN <<EvFlag("onTrackingStatusChange", FALSE)>> ELSE <<>>)

\* The calls pauseTracking makes from state tracking, in order.
pauseTrackingCalls(ok) ==
  <<EvCall("scheduler.pause")>>
  \o (IF ~trackerUseMockData THEN <<EvSave(saveWritten(ok))>> ELSE <<>>)
  \o (IF callbacksSet THEN <<EvFlag("onTrackingStatusChange", FALSE)>> ELSE <<>>)

PauseTracking(ok) ==
  IF ~isTracking
  THEN /\ trace' = <<EvCall("pauseTracking")>>
       /\ UNCHANGED <<facadeVars, storeVars, aggVars, trackerVars, schedVars, hbVars,
                      now, pureVars, unitVars>>
  ELSE /\ isTracking' = FALSE
       /\ schedRunning' = IntervalScheduler_pause(schedRunning, schedTimer)[1]
       /\ schedTimer' = IntervalScheduler_pause(schedRunning, schedTimer)[2]
       /\ file' = IF ~trackerUseMockData
                  THEN ActivityStorage_saveToDisk(file, days, ok) ELSE file
       /\ trace' = <<EvCall("pauseTracking")>> \o pauseTrackingCalls(ok)
       /\ UNCHANGED <<facadeVars, days, aggVars, currentDayKey, schedInterval, hbVars,
                      now, pureVars, unitVars>>

\* ---- ActivityTracker.addHeartbeat (with handleDayChange): the store, the file,
\* currentDayKey and the calls made, for a sample arriving at `now`; ok: a write
\* to the file succeeds.
\* A mutant of trackerAddHeartbeat: the guard on isTracking is missing.
trackerAddHeartbeat_noGuard(heartbeatData, ok) ==
  LET timestamp == now
      newDateKey == getDateKey(timestamp)
      dayChange == newDateKey # currentDayKey
      saves == dayChange /\ ~trackerUseMockData
  IN [days |-> ActivityStorage_addHeartbeat(days, timestamp, heartbeatData, newDateKey),
      file |-> IF saves THEN ActivityStorage_saveToDisk(file, days, ok) ELSE file,
      currentDayKey |-> newDateKey,
      trace |-> (IF saves THEN <<EvSave(saveWritten(ok))>> ELSE <<>>)
                \o (IF dayChange THEN <<EvDay("setCurrentDayKey", newDateKey)>> ELSE <<>>)
                \o <<EvDay("storage.addHeartbeat", newDateKey)>>]

\* A mutant of trackerAddHeartbeat: on a day change the sample is stored (under the
\* old key) before handleDayChange runs.
trackerAddHeartbeat_storeFirst(heartbeatData, ok) ==
  IF ~isTracking
  THEN [days |-> days, file |-> file, currentDayKey |-> currentDayKey, trace |-> <<>>]
  ELSE LET timestamp == now
           newDateKey == getDateKey(timestamp)
           dayChange == newDateKey # currentDayKey
           saves == dayChange /\ ~trackerUseMockData
           stored == ActivityStorage_addHeartbeat(days, timestamp, heartbeatData,
                                                  currentDayKey)
       IN [days |-> stored,
           file |-> IF saves THEN ActivityStorage_saveToDisk(file, stored, ok) ELSE file,
           currentDayKey |-> newDateKey,
           trace |-> <<EvDay("storage.addHeartbeat", currentDayKey)>>
                     \o (IF saves THEN <<EvSave(saveWritten(ok))>> ELSE <<>>)
                     \o (IF dayChange THEN <<EvDay("setCurrentDayKey", newDateKey)>>
                         ELSE <<>>)]

trackerAddHeartbeat(heartbeatData, ok) ==
  IF ~isTracking
  THEN [days |-> days, file |-> file, currentDayKey |-> currentDayKey, trace |-> <<>>]
  ELSE LET timestamp == now
           newDateKey == getDateKey(timestamp)
           dayChange == newDateKey # currentDayKey
           saves == dayChange /\ ~trackerUseMockData
       IN [days |-> ActivityStorage_addHeartbeat(days, timestamp, heartbeatData,
                                                 newDateKey),
           file |-> IF saves THEN ActivityStorage_saveToDisk(file, days, ok) ELSE file,
           currentDayKey |-> newDateKey,
           trace |-> (IF saves THEN <<EvSave(saveWritten(ok))>> ELSE <<>>)
                     \o (IF dayChange THEN <<EvDay("setCurrentDayKey", newDateKey)>>
                         ELSE <<>>)
                     \o <<EvDay("storage.addHeartbeat", newDateKey)>>]

\* The sample is accepted only while the store has room (a bound of the model).
hasRoom == isTracking => totalHeartbeats(days) < MaxHb

\* A mutant of ActivityTracker_addHeartbeat: an accepted sample drops the cache.
ActivityTracker_addHeartbeat_invalidate(call, heartbeatData, ok) ==
  LET r == trackerAddHeartbeat(heartbeatData, ok)
  IN /\ hasRoom
     /\ days' = r.days
     /\ file' = r.file
     /\ currentDayKey' = r.currentDayKey
     /\ trace' = <<call>> \o r.trace
     /\ aggregationCache' = IF isTracking THEN EmptyDays ELSE aggregationCache
     /\ UNCHANGED <<facadeVars, aggregationInterval, isTracking, schedVars,
                    hbInitialized, hbRunning, now, pureVars, unitVars>>

ActivityTracker_addHeartbeat(call, heartbeatData, ok) ==
  LET r == trackerAddHeartbeat(heartbeatData, ok)
  IN /\ hasRoom
     /\ days' = r.days
     /\ file' = r.file
     /\ currentDayKey' = r.currentDayKey
     /\ trace' = <<call>> \o r.trace
     /\ UNCHANGED <<facadeVars, aggVars, isTracking, schedVars, hbInitialized,
                    hbRunning, now, pureVars, unitVars>>

\* ---- ActivityFacade.addHeartbeat called directly
AddHeartbeat(heartbeatData, ok) ==
  /\ ActivityTracker_addHeartbeat(EvCall("addHeartbeat"), heartbeatData, ok)
  /\ UNCHANGED hbInFlight

\* ---- ActivityTracker.handleIntervalEnd: the cache, the file and the calls made
\* A mutant of handleIntervalEnd: the store is persisted before the aggregation and
\* the notification.
handleIntervalEnd_saveFirst(ok) ==
  IF isTracking /\ ~trackerUseMockData
  THEN [cache |-> [k \in (DOMAIN aggregationCache) \cup {currentDayKey} |->
                     IF k = currentDayKey
                     THEN aggregateDayEntry(days, currentDayKey, aggregationInterval)
                     ELSE aggregationCache[k]],
        file |-> ActivityStorage_saveToDisk(file, days, ok),
        trace |-> <<EvSave(saveWritten(ok)), EvDay("aggregateDay", currentDayKey)>>
                  \o (IF callbacksSet THEN <<EvDay("onDataUpdate", currentDayKey)>>
                      ELSE <<>>)]
  ELSE [cache |-> aggregationCache, file |-> file, trace |-> <<>>]

\* A mutant of handleIntervalEnd: the tick does not persist the store.
handleIntervalEnd_noSave(ok) ==
  IF isTracking /\ ~trackerUseMockData
  THEN [cache |-> [k \in (DOMAIN aggregationCache) \cup {currentDayKey} |->
                     IF k = currentDayKey
                     THEN aggregateDayEntry(days, currentDayKey, aggregationInterval)
                     ELSE aggregationCache[k]],
        file |-> file,
        trace |-> <<EvDay("aggregateDay", currentDayKey)>>
                  \o (IF callbacksSet THEN <<EvDay("onDataUpdate", currentDayKey)>>
                      ELSE <<>>)]
  ELSE [cache |-> aggregationCache, file |-> file, trace |-> <<>>]

handleIntervalEnd(ok) ==
  IF isTracking /\ ~trackerUseMockData
  THEN [cache |-> [k \in (DOMAIN aggregationCache) \cup {currentDayKey} |->
                     IF k = currentDayKey
                     THEN aggregateDayEntry(days, currentDayKey, aggregationInterval)
                     ELSE aggregationCache[k]],
        file |-> ActivityStorage_saveToDisk(file, days, ok),
        trace |-> <<EvDay("aggregateDay", currentDayKey)>>
                  \o (IF callbacksSet THEN <<EvDay("onDataUpdate", currentDayKey)>>
                      ELSE <<>>)
                  \o <<EvSave(saveWritten(ok))>>]
  ELSE [cache |-> aggregationCache, file |-> file, trace |-> <<>>]

\* ---- IntervalScheduler: the pending timeout fires (the closure of scheduleNext)
SchedulerFire(ok) ==
  /\ schedTimer
  /\ IF schedRunning
     THEN LET r == handleIntervalEnd(ok)
          IN /\ aggregationCache' = r.cache
             /\ file' = r.file
             /\ trace' = <<EvCall("timer"), EvCall("handleIntervalEnd")>> \o r.trace
             /\ schedTimer' = schedRunning
     ELSE /\ trace' = <<EvCall("timer")>>
          /\ schedTimer' = FALSE
          /\ UNCHANGED <<aggregationCache, file>>
  /\ UNCHANGED <<facadeVars, days, aggregationInterval, trackerVars, schedRunning,
                 schedInterval, hbVars, now, pureVars, unitVars>>

\* ---- AggregationService.setAggregationInterval (through the facade)
\* A mutant of SetAggregationInterval: the cache is kept when the interval changes.
SetAggregationInterval_noClear(interval) ==
  /\ IF interval \notin AggregationIntervals
     THEN UNCHANGED aggVars
     ELSE /\ aggregationInterval' = interval
          /\ aggregationCache' = aggregationCache
  /\ trace' = <<EvDay("setAggregationInterval", interval)>>
              \o (IF interval \in AggregationIntervals
                  THEN <<EvFlag("clearCache", aggregationCache # EmptyDays)>> ELSE <<>>)
  /\ UNCHANGED <<facadeVars, storeVars, trackerVars, schedVars, hbVars, now, pureVars, unitVars>>

\* A mutant of SetAggregationInterval: the value is not validated.
SetAggregationInterval_noCheck(interval) ==
  /\ aggregationInterval' = interval
  /\ aggregationCache' = EmptyDays
  /\ trace' = <<EvDay("setAggregationInterval", interval)>>
  /\ UNCHANGED <<facadeVars, storeVars, trackerVars, schedVars, hbVars, now, pureVars, unitVars>>

\* The clearCache event tells whether the cache held entries when it was cleared.
SetAggregationInterval(interval) ==
  /\ IF interval \notin AggregationIntervals
     THEN UNCHANGED aggVars
     ELSE /\ aggregationInterval' = interval
          /\ aggregationCache' = EmptyDays
  /\ trace' = <<EvDay("setAggregationInterval", interval)>>
              \o (IF interval \in AggregationIntervals
                  THEN <<EvFlag("clearCache", aggregationCache # EmptyDays)>> ELSE <<>>)
  /\ UNCHANGED <<facadeVars, storeVars, trackerVars, schedVars, hbVars, now, pureVars, unitVars>>

\* ---- AggregationService.getAggregatedData: the entry returned and the cache
\* A mutant of getAggregatedData: the cache is not consulted.
getAggregatedData_noCache(dateKey) ==
  LET entry == cacheMissEntry(days, dateKey, aggregationInterval)
  IN [entry |-> entry,
      cache |-> [k \in (DOMAIN aggregationCache) \cup {dateKey} |->
                   IF k = dateKey THEN entry ELSE aggregationCache[k]]]

getAggregatedData(dateKey) ==
  IF dateKey \in DOMAIN aggregationCache
  THEN [entry |-> aggregationCache[dateKey], cache |-> aggregationCache]
  ELSE LET entry == cacheMissEntry(days, dateKey, aggregationInterval)
       IN [entry |-> entry,
           cache |-> [k \in (DOMAIN aggregationCache) \cup {dateKey} |->
                        IF k = dateKey THEN entry ELSE aggregationCache[k]]]

\* ActivityFacade.getDayData(dateKey) -> getDayDataWithAggregation -> getAggregatedData
GetAggregatedData(dateKey) ==
  LET r == getAggregatedData(dateKey)
  IN /\ aggregationCache' = r.cache
     /\ trace' = <<EvDay("getAggregatedData", dateKey), EvReturn(dateKey, r.entry)>>
     /\ UNCHANGED <<facadeVars, storeVars, aggregationInterval, trackerVars, schedVars,
                    hbVars, now, pureVars, unitVars>>

\* ---- Date.now(): time passes
ClockTick ==
  /\ now < MaxTime
  /\ now' = now + 1
  /\ trace' = <<>>
  /\ UNCHANGED <<facadeVars, storeVars, aggVars, trackerVars, schedVars, hbVars,
                 pureVars, unitVars>>

\* ---- HeartbeatManager
\* init(): ok is whether every watcher's init resolves.
HbInit(ok) ==
  /\ hbInitialized' = IF hbInitialized THEN TRUE ELSE ok
  /\ trace' = <<EvFlag("heartbeat.init", ok)>>
  /\ UNCHANGED <<facadeVars, storeVars, aggVars, trackerVars, schedVars, hbRunning,
                 hbInFlight, now, pureVars, unitVars>>

HbStart ==
  /\ hbRunning' = IF hbRunning THEN TRUE ELSE hbInitialized
  /\ trace' = <<EvCall("heartbeat.start")>>
  /\ UNCHANGED <<facadeVars, storeVars, aggVars, trackerVars, schedVars, hbInitialized,
                 hbInFlight, now, pureVars, unitVars>>

HbStop ==
  /\ hbRunning' = FALSE
  /\ trace' = <<EvCall("heartbeat.stop")>>
  /\ UNCHANGED <<facadeVars, storeVars, aggVars, trackerVars, schedVars, hbInitialized,
                 hbInFlight, now, pureVars, unitVars>>

\* checkHeartbeatTime -> generateHeartbeat up to its await of collectHeartbeatData
HbGenerate ==
  /\ hbRunning
  /\ Len(hbInFlight) < MaxInFlight
  /\ hbInFlight' = Append(hbInFlight, isTracking)
  /\ trace' = <<EvCall("generateHeartbeat")>>
  /\ UNCHANGED <<facadeVars, storeVars, aggVars, trackerVars, schedVars, hbInitialized,
                 hbRunning, now, pureVars, unitVars>>

\* generateHeartbeat from the point where collectHeartbeatData resolves
\* for the i-th awaited collection; the event's flag tells whether the coordinator
\* was tracking when the collection began
HbDeliver(i, heartbeatData, ok) ==
  /\ i \in 1..Len(hbInFlight)
  /\ hbInFlight' = SubSeq(hbInFlight, 1, i - 1) \o SubSeq(hbInFlight, i + 1, Len(hbInFlight))
  /\ ActivityTracker_addHeartbeat(EvFlag("generateHeartbeat.deliver", hbInFlight[i]),
                                  heartbeatData, ok)

HbCleanup ==
  /\ hbRunning' = FALSE
  /\ hbInitialized' = FALSE
  /\ trace' = <<EvCall("heartbeat.cleanup")>>
  /\ UNCHANGED <<facadeVars, storeVars, aggVars, trackerVars, schedVars, hbInFlight,
                 now, pureVars, unitVars>>

\* ---- ActivityFacade.cleanup: ActivityTracker.cleanup, then a last save
FacadeCleanup(ok) ==
  /\ schedRunning' = IntervalScheduler_pause(schedRunning, schedTimer)[1]
  /\ schedTimer' = IntervalScheduler_pause(schedRunning, schedTimer)[2]
  /\ file' = IF ~useMockData THEN ActivityStorage_saveToDisk(file, days, ok) ELSE file
  /\ trace' = <<EvCall("cleanup"), EvCall("scheduler.pause")>>
              \o (IF ~useMockData THEN <<EvSave(saveWritten(ok))>> ELSE <<>>)
  /\ UNCHANGED <<facadeVars, days, aggVars, trackerVars, schedInterval, hbVars, now,
                 pureVars, unitVars>>

\* ---- the pure operations on drawn inputs
\* The day the operation is applied to, and another day of the store.
PureDay == getDateKey(1)
OtherDay == PureDay + 1
OtherHeartbeats ==
  <<Heartbeat(1, [userActivity |-> "may_be_inactive",
                  appWindow |-> [app |-> "Code", title |-> "main.ts"]])>>

PureHeartbeats == { Heartbeat(ts, d) : ts \in 1..MaxTs, d \in Samples }

\* The stores drawn: PureDay holds any sequence (or has no record yet), OtherDay a
\* fixed sequence with a may_be_inactive heartbeat.
PureStores ==
  { (PureDay :> h) @@ (OtherDay :> OtherHeartbeats) : h \in SeqsUpTo(PureHeartbeats, MaxLen) }
  \cup { (OtherDay :> OtherHeartbeats) }

PureInit ==
  /\ FacadeInit
  /\ useMockData
  /\ pIn \in [days : PureStores, t : 1..(MaxTs + 1), d : Samples]
  /\ pOut = NoPureOut
  /\ sched = IntervalScheduler_new(DefaultAggregationInterval)
  /\ UnitsNotBuilt

sysVars == <<facadeVars, storeVars, aggVars, trackerVars, schedVars, hbVars, now, trace,
             unitVars>>

pureHeartbeats == ActivityState_getHeartbeats(pIn.days, PureDay)

PureCorrect ==
  /\ pOut.op = "none"
  /\ pOut' = [pOut EXCEPT !.op = "once",
                          !.once = handleMayBeInactive(pureHeartbeats, pIn.t, pIn.d)]
  /\ UNCHANGED <<sysVars, pIn>>

PureCorrectAgain ==
  /\ pOut.op = "once"
  /\ pOut' = [pOut EXCEPT !.op = "twice",
                          !.twice = handleMayBeInactive(pOut.once, pIn.t, pIn.d)]
  /\ UNCHANGED <<sysVars, pIn>>

PureAddHeartbeat ==
  /\ pOut.op = "none"
  /\ pOut' = [pOut EXCEPT !.op = "add",
                          !.days = ActivityStorage_addHeartbeat(pIn.days, pIn.t, pIn.d,
                                                                PureDay)]
  /\ UNCHANGED <<sysVars, pIn>>

PureNext ==
  \/ PureCorrect
  \/ PureCorrectAgain
  \/ PureAddHeartbeat

\* handleMayBeInactive and ActivityStorage.addHeartbeat on every drawn input.
SpecPure == PureInit /\ [][PureNext]_vars

\* ---- the coordinator with its scheduler, the store and the file
Next ==
  \/ SetCallbacks
  \/ StartTracking
  \/ \E ok \in BOOLEAN : PauseTracking(ok)
  \/ \E d \in SysSamples, ok \in BOOLEAN : AddHeartbeat(d, ok)
  \/ \E ok \in BOOLEAN : SchedulerFire(ok)
  \/ ClockTick
  \/ \E ok \in BOOLEAN : FacadeCleanup(ok)

Spec == Init /\ [][Next]_vars

\* ---- the coordinator fed by the HeartbeatManager
CaptureNext ==
  \/ StartTracking
  \/ \E ok \in BOOLEAN : PauseTracking(ok)
  \/ ClockTick
  \/ \E ok \in BOOLEAN : HbInit(ok)
  \/ HbStart
  \/ HbStop
  \/ HbGenerate
  \/ \E i \in 1..MaxInFlight, d \in SysSamples, ok \in BOOLEAN : HbDeliver(i, d, ok)
  \/ HbCleanup

SpecCapture == Init /\ [][CaptureNext]_vars

\* ---- the aggregation cache under ticks, interval changes and reads; the writes
\* to the file succeed
CacheNext ==
  \/ StartTracking
  \/ \E d \in SysSamples : AddHeartbeat(d, TRUE)
  \/ SchedulerFire(TRUE)
  \/ \E v \in AggregationIntervals \cup {InvalidInterval} : SetAggregationInterval(v)
  \/ \E k \in DayKeys : GetAggregatedData(k)
  \/ ClockTick

SpecCache == Init /\ [][CacheNext]_vars

\* ---- the running pipeline: inactive samples, ticks and pauses while the process
\* lives (no cleanup), all within one clock value; a pending timeout eventually
\* fires.
LiveNext ==
  \/ StartTracking
  \/ \E ok \in BOOLEAN : PauseTracking(ok)
  \/ \E d \in { x \in SysSamples : x.userActivity = "inactive" }, ok \in BOOLEAN :
       AddHeartbeat(d, ok)
  \/ \E ok \in BOOLEAN : SchedulerFire(ok)

SpecLive == Init /\ [][LiveNext]_vars /\ WF_vars(\E ok \in BOOLEAN : SchedulerFire(ok))

\* ---- the IntervalScheduler driven by any client and any callback: the calls may
\* come between timeouts or from inside the callback (JavaScript runs a handler to
\* completion, so no timeout fires while the callback runs).
MaxOrphans == 2

SchedInit ==
  /\ FacadeInit
  /\ ~useMockData
  /\ file = <<>>
  /\ pIn = NoPureIn
  /\ pOut = NoPureOut
  /\ sched \in { IntervalScheduler_new(m) : m \in AggregationIntervals }
  /\ UnitsNotBuilt

SchedCall(op, arg, s) ==
  /\ s.orphans <= MaxOrphans
  /\ sched' = s
  /\ trace' = <<EvDay(op, arg)>>
  /\ UNCHANGED <<facadeVars, storeVars, aggVars, trackerVars, schedVars, hbVars, now,
                 pureVars, storage, adapter, collector>>

SchedStart == SchedCall("scheduler.start", 0, start(sched))

SchedPause == SchedCall("scheduler.pause", 0, pause(sched))

SchedSetInterval(intervalMinutes) ==
  SchedCall("scheduler.setInterval", intervalMinutes, setInterval(sched, intervalMinutes))

SchedCleanup == SchedCall("scheduler.cleanup", 0, cleanup(sched))

\* A pending timeout fires: the one timerId refers to, or an orphan. The handler
\* calls callback() when the scheduler is running.
SchedTimeout(orphan) ==
  /\ ~sched.inCallback
  /\ IF orphan THEN sched.orphans > 0 ELSE sched.timer # 0
  /\ LET fired == IF orphan THEN [sched EXCEPT !.orphans = @ - 1]
                  ELSE [sched EXCEPT !.timer = 0]
     IN /\ sched' = [fired EXCEPT !.inCallback = fired.isRunning]
        /\ trace' = <<EvFlag("timer", orphan)>>
                    \o (IF fired.isRunning THEN <<EvCall("callback")>> ELSE <<>>)
  /\ UNCHANGED <<facadeVars, storeVars, aggVars, trackerVars, schedVars, hbVars, now,
                 pureVars, storage, adapter, collector>>

\* callback() returns or throws (the error is caught and logged); the handler then
\* calls scheduleNext().
SchedCallbackExit(throws) ==
  /\ sched.inCallback
  /\ LET s == scheduleNext([sched EXCEPT !.inCallback = FALSE])
     IN /\ s.orphans <= MaxOrphans
        /\ sched' = s
  /\ trace' = <<EvFlag("callback.exit", throws), EvCall("scheduleNext")>>
  /\ UNCHANGED <<facadeVars, storeVars, aggVars, trackerVars, schedVars, hbVars, now,
                 pureVars, storage, adapter, collector>>

SchedNext ==
  \/ SchedStart
  \/ SchedPause
  \/ \E m \in AggregationIntervals : SchedSetInterval(m)
  \/ SchedCleanup
  \/ \E orphan \in BOOLEAN : SchedTimeout(orphan)
  \/ \E throws \in BOOLEAN : SchedCallbackExit(throws)

SpecSched == SchedInit /\ [][SchedNext]_vars

\* ---- reading a day. A day-key argument is a calendar day (a string of the form
\* YYYY-MM-DD), a non-empty string of another form, the empty string, or
\* null/undefined.
MalformedKey == -2
EmptyKey == -3
NoKey == -4

KeyArgs == DayKeys \cup {MalformedKey, EmptyKey, NoKey}

\* dateKey || <default>: null, undefined and "" are falsy.
falsyKey(dateKey) == dateKey \in {EmptyKey, NoKey}

\* /^\d{4}-\d{2}-\d{2}$/.test(targetDateKey)
matchesDateKey(targetDateKey) == targetDateKey \notin {MalformedKey, EmptyKey, NoKey}

NullDay == [isNull |-> TRUE, heartbeats |-> <<>>, timelineEvents |-> <<>>]
DayData(heartbeats, timelineEvents) ==
  [isNull |-> FALSE, heartbeats |-> heartbeats, timelineEvents |-> timelineEvents]

ActivityStorage_getDayData(dayMap, dateKey, todayDateKey) ==
  LET targetDateKey == IF falsyKey(dateKey) THEN todayDateKey ELSE dateKey
      dayHeartbeats == ActivityState_getHeartbeats(dayMap, targetDateKey)
  IN IF ~matchesDateKey(targetDateKey) THEN NullDay
     ELSE IF Len(dayHeartbeats) = 0
          THEN IF targetDateKey = todayDateKey THEN DayData(<<>>, <<>>) ELSE NullDay
     ELSE DayData(dayHeartbeats, <<>>)

\* activityStorage.getDayData(dateKey)
StorageGetDayData(dateKey) ==
  /\ trace' = <<EvDay("storage.getDayData", dateKey),
                EvReturn(dateKey, ActivityStorage_getDayData(days, dateKey, getDateKey(now)))>>
  /\ UNCHANGED <<facadeVars, storeVars, aggVars, trackerVars, schedVars, hbVars, now,
                 pureVars, unitVars>>

\* AggregationService.getDayDataWithAggregation(dateKey): the record returned and
\* the cache.
getDayDataWithAggregation(dateKey) ==
  LET stored == ActivityStorage_getDayData(days, dateKey, getDateKey(now))
      heartbeats == IF stored.isNull THEN <<>> ELSE stored.heartbeats
      r == getAggregatedData(dateKey)
  IN [result |-> DayData(heartbeats, r.entry.timelineEvents), cache |-> r.cache]

\* ActivityFacade.getDayData(dateKey)
FacadeGetDayData(dateKey) ==
  LET effectiveDateKey == IF falsyKey(dateKey) THEN getDateKey(now) ELSE dateKey
      r == getDayDataWithAggregation(effectiveDateKey)
  IN /\ aggregationCache' = r.cache
     /\ trace' = <<EvDay("facade.getDayData", dateKey), EvReturn(effectiveDateKey, r.result)>>
     /\ UNCHANGED <<facadeVars, storeVars, aggregationInterval, trackerVars, schedVars,
                    hbVars, now, pureVars, unitVars>>

\* ---- the store and the cache under samples, the clock and reads of a day; the
\* writes to the file succeed
QueryNext ==
  \/ StartTracking
  \/ \E d \in SysSamples : AddHeartbeat(d, TRUE)
  \/ ClockTick
  \/ \E k \in KeyArgs : StorageGetDayData(k)
  \/ \E k \in KeyArgs : FacadeGetDayData(k)

SpecQuery == Init /\ [][QueryNext]_vars

\* ---- ActivityStorage on its own: retention purge and the list of days. The
\* clock of this unit counts the same units as getDateKey (TicksPerDay to a day) and
\* starts RetentionDays after day 0, where the purge begins to find old days.
RetentionDays == 30
MaxPurgeTicks == 4
MaxOldDay == 1

oneDayMs == TicksPerDay
PurgeStart == RetentionDays * oneDayMs

\* Date.parse(dateKey + 'T00:00:00Z')
midnightUTC(dateKey) == dateKey * TicksPerDay

\* The directories a store file can lie in: the platform's user-data directory and
\* one chosen by the user. A directory argument of null stands for the former.
StoreDirs == {"userData", "custom"}
NullDir == "null"

StoreData(version, lastCleanupTime, dayMap) ==
  [version |-> version, lastCleanupTime |-> lastCleanupTime, days |-> dayMap]

\* A file that holds a store document, and one whose content is no store document.
StoreFile(data) == <<[valid |-> TRUE, data |-> data]>>
CorruptFile == <<[valid |-> FALSE, data |-> StoreData(0, 0, EmptyDays)]>>
NoFile == <<>>

ActivityState_getAvailableDates(data) == DOMAIN data.days

ActivityState_deleteDays(data, dateKeys) ==
  [data EXCEPT !.days = [k \in (DOMAIN data.days) \ dateKeys |-> data.days[k]]]

ActivityState_updateLastCleanupTime(data, t) == [data EXCEPT !.lastCleanupTime = t]

\* Array.prototype.sort() of day keys: the keys have one width, so the order of
\* the strings is the order of the days.
RECURSIVE sortKeys(_)
sortKeys(S) ==
  IF S = {} THEN <<>>
  ELSE LET first == CHOOSE k \in S : \A other \in S : k <= other
       IN <<first>> \o sortKeys(S \ {first})

\* A mutant of ActivityStorage_getAvailableDates: today's key is not added.
ActivityStorage_getAvailableDates_noToday(s) ==
  sortKeys(ActivityState_getAvailableDates(s.data))

ActivityStorage_getAvailableDates(s) ==
  sortKeys(ActivityState_getAvailableDates(s.data) \cup {getDateKey(s.now)})

\* saveToDisk of the unit; ok: the write succeeds.
saveToDisk(s, ok) ==
  IF s.useMockData THEN s
  ELSE IF ok THEN [s EXCEPT !.files[s.dataFilePath] = StoreFile(s.data)]
  ELSE s

getDatesOlderThan(data, timestampThreshold) ==
  { dateKey \in ActivityState_getAvailableDates(data) :
      midnightUTC(dateKey) < timestampThreshold }

\* A mutant of cleanupOldData: no test of the time of the last cleanup.
cleanupOldData_noWindow(s, ok) ==
  IF s.useMockData THEN [s |-> s, calls |-> <<>>]
  ELSE LET datesToDelete == getDatesOlderThan(s.data, s.now - RetentionDays * oneDayMs)
           deleted == ActivityState_deleteDays(s.data, datesToDelete)
           updated == ActivityState_updateLastCleanupTime(deleted, s.now)
       IN [s |-> saveToDisk([s EXCEPT !.data = updated], ok),
           calls |-> <<EvCall("getDatesOlderThan"), EvCall("updateLastCleanupTime"),
                       EvSave(ok)>>]

\* A mutant of cleanupOldData: a scan that finds no old day returns at once.
cleanupOldData_skipEmpty(s, ok) ==
  IF s.useMockData THEN [s |-> s, calls |-> <<>>]
  ELSE IF s.data.lastCleanupTime > s.now - oneDayMs THEN [s |-> s, calls |-> <<>>]
  ELSE LET datesToDelete == getDatesOlderThan(s.data, s.now - RetentionDays * oneDayMs)
           deleted == ActivityState_deleteDays(s.data, datesToDelete)
           updated == ActivityState_updateLastCleanupTime(deleted, s.now)
       IN IF datesToDelete = {} THEN [s |-> s, calls |-> <<EvCall("getDatesOlderThan")>>]
          ELSE [s |-> saveToDisk([s EXCEPT !.data = updated], ok),
                calls |-> <<EvCall("getDatesOlderThan"), EvCall("updateLastCleanupTime"),
                            EvSave(ok)>>]

\* cleanupOldData: the unit afterwards and the calls made.
cleanupOldData(s, ok) ==
  IF s.useMockData THEN [s |-> s, calls |-> <<>>]
  ELSE IF s.data.lastCleanupTime > s.now - oneDayMs THEN [s |-> s, calls |-> <<>>]
  ELSE LET datesToDelete == getDatesOlderThan(s.data, s.now - RetentionDays * oneDayMs)
           deleted == ActivityState_deleteDays(s.data, datesToDelete)
           updated == ActivityState_updateLastCleanupTime(deleted, s.now)
       IN [s |-> saveToDisk([s EXCEPT !.data = updated], ok),
           calls |-> <<EvCall("getDatesOlderThan"), EvCall("updateLastCleanupTime"),
                       EvSave(ok)>>]

\* The day records the unit starts with: days that are about RetentionDays old.
OldDayMaps ==
  { [k \in S |-> <<Heartbeat(midnightUTC(k), [userActivity |-> "inactive",
                                               appWindow |-> NoAppWindow])>>] :
      S \in SUBSET (0..MaxOldDay) }

PurgeStorages ==
  { [useMockData |-> m, now |-> PurgeStart, data |-> StoreData(1, last, dayMap),
     dataFilePath |-> "userData", settingsDir |-> NullDir,
     files |-> [d \in StoreDirs |-> IF d = "userData" /\ ~m
                                    THEN StoreFile(StoreData(1, last, dayMap))
                                    ELSE NoFile]] :
      m \in BOOLEAN, dayMap \in OldDayMaps,
      last \in {0} \cup ((PurgeStart - oneDayMs)..PurgeStart) }

PurgeInit ==
  /\ FacadeInit
  /\ ~useMockData
  /\ file = <<>>
  /\ pIn = NoPureIn
  /\ pOut = NoPureOut
  /\ sched = IntervalScheduler_new(DefaultAggregationInterval)
  /\ storage \in PurgeStorages
  /\ adapter = <<>>
  /\ collector = <<>>

\* A handler of the storage unit: s is the unit afterwards, calls what it did.
StorageStep(s, calls) ==
  /\ storage' = s
  /\ trace' = calls
  /\ UNCHANGED <<facadeVars, storeVars, aggVars, trackerVars, schedVars, hbVars, now,
                 pureVars, sched, adapter, collector>>

PurgeCleanupOldData(ok) ==
  LET r == cleanupOldData(storage, ok)
  IN StorageStep(r.s, <<EvCall("cleanupOldData")>> \o r.calls)

PurgeSaveToDisk(ok) ==
  StorageStep(saveToDisk(storage, ok), <<EvCall("storage.saveToDisk")>>)

\* ActivityStorage.addHeartbeat for the current instant (today's first sample only).
PurgeAddHeartbeat ==
  /\ getDateKey(storage.now) \notin DOMAIN storage.data.days
  /\ StorageStep([storage EXCEPT !.data.days =
                     ActivityStorage_addHeartbeat(@, storage.now,
                       [userActivity |-> "inactive", appWindow |-> NoAppWindow],
                       getDateKey(storage.now))],
                 <<EvCall("storage.addHeartbeat")>>)

PurgeClockTick ==
  /\ storage.now < PurgeStart + MaxPurgeTicks
  /\ StorageStep([storage EXCEPT !.now = @ + 1], <<>>)

PurgeGetAvailableDates ==
  StorageStep(storage, <<EvCall("getAvailableDates"),
                         EvReturn(getDateKey(storage.now),
                                  ActivityStorage_getAvailableDates(storage))>>)

PurgeNext ==
  \/ \E ok \in BOOLEAN : PurgeCleanupOldData(ok)
  \/ \E ok \in BOOLEAN : PurgeSaveToDisk(ok)
  \/ PurgeAddHeartbeat
  \/ PurgeClockTick
  \/ PurgeGetAvailableDates

SpecPurge == PurgeInit /\ [][PurgeNext]_vars

\* ---- ActivityStorage on its own: relocation of the store file
\* path.join(newDirPath, 'chronflow-activity-store.json'), or the file in the
\* user-data directory for null: a file path is named by its directory.
storeFilePath(newDirPath) == IF newDirPath = NullDir THEN "userData" ELSE newDirPath

\* this.persistence.loadData(): <<>> for null, else <<StoreData>>.
persistence_loadData(files, filePath) ==
  IF files[filePath] = NoFile THEN <<>>
  ELSE IF ~files[filePath][1].valid THEN <<>>
  ELSE <<files[filePath][1].data>>

\* The file-system and settings calls of a relocation that can throw.
RelocationFailures == {"none", "mkdir", "read", "write", "unlink", "settings"}

\* updateStoragePath(newDirPath): the unit afterwards and the value returned; fail
\* names the call that throws, if it is reached.
updateStoragePath(s, newDirPath, fail) ==
  LET oldFilePath == s.dataFilePath
      newFilePath == storeFilePath(newDirPath)
      move == s.files[oldFilePath] # NoFile /\ s.files[newFilePath] = NoFile
      copied == [s EXCEPT !.files[newFilePath] = s.files[oldFilePath]]
      moved == IF oldFilePath # newFilePath
               THEN [copied EXCEPT !.files[oldFilePath] = NoFile]
               ELSE copied
      afterMove == IF move THEN moved ELSE s
      repointed == [afterMove EXCEPT !.settingsDir = newDirPath,
                                     !.dataFilePath = newFilePath]
      data == persistence_loadData(repointed.files, newFilePath)
      reloaded == IF data # <<>> THEN [repointed EXCEPT !.data = data[1]] ELSE repointed
  IN IF move /\ fail \in {"mkdir", "read", "write"} THEN [s |-> s, result |-> FALSE]
     ELSE IF move /\ oldFilePath # newFilePath /\ fail = "unlink"
          THEN [s |-> copied, result |-> FALSE]
     ELSE IF fail = "settings" THEN [s |-> afterMove, result |-> FALSE]
     ELSE [s |-> reloaded, result |-> TRUE]

\* useExistingStoreFile(newDirPath)
useExistingStoreFile(s, newDirPath, fail) ==
  LET repointed == [s EXCEPT !.settingsDir = newDirPath, !.dataFilePath = newDirPath]
      data == persistence_loadData(repointed.files, newDirPath)
      reloaded == IF data # <<>> THEN [repointed EXCEPT !.data = data[1]] ELSE repointed
  IN IF fail = "settings" THEN [s |-> s, result |-> FALSE]
     ELSE [s |-> reloaded, result |-> TRUE]

\* The stores and files a relocation starts from.
RelocationData ==
  { StoreData(1, 0, dayMap) : dayMap \in OldDayMaps }

RelocationFiles ==
  {NoFile, CorruptFile} \cup { StoreFile(d) : d \in RelocationData }

RelocationStorages ==
  { [useMockData |-> FALSE, now |-> PurgeStart, data |-> d, dataFilePath |-> p,
     settingsDir |-> IF p = "userData" THEN NullDir ELSE p, files |-> f] :
      d \in RelocationData, p \in StoreDirs, f \in [StoreDirs -> RelocationFiles] }

RelocateInit ==
  /\ FacadeInit
  /\ ~useMockData
  /\ file = <<>>
  /\ pIn = NoPureIn
  /\ pOut = NoPureOut
  /\ sched = IntervalScheduler_new(DefaultAggregationInterval)
  /\ storage \in RelocationStorages
  /\ adapter = <<>>
  /\ collector = <<>>

UpdateStoragePath(newDirPath, fail) ==
  LET r == updateStoragePath(storage, newDirPath, fail)
  IN StorageStep(r.s, <<Ev("updateStoragePath", -1, r.result, <<>>, <<newDirPath>>)>>)

UseExistingStoreFile(newDirPath, fail) ==
  LET r == useExistingStoreFile(storage, newDirPath, fail)
  IN StorageStep(r.s, <<Ev("useExistingStoreFile", -1, r.result, <<>>, <<newDirPath>>)>>)

RelocateNext ==
  \/ \E d \in {NullDir, "custom"}, fail \in RelocationFailures : UpdateStoragePath(d, fail)
  \/ \E d \in StoreDirs, fail \in {"none", "settings"} : UseExistingStoreFile(d, fail)
  \/ \E ok \in BOOLEAN : PurgeSaveToDisk(ok)

SpecRelocate == RelocateInit /\ [][RelocateNext]_vars

\* ---- StorageAdapter on its own. JavaScript values are records: t is the kind of
\* the value, n, s and m its payload as a number, a string or a days map.
MaxVersion == 1

JS(t, n, s, m) == [t |-> t, n |-> n, s |-> s, m |-> m]
JUndefined == JS("undefined", 0, "", EmptyDays)
JNull == JS("null", 0, "", EmptyDays)
JNum(n) == JS("number", n, "", EmptyDays)
JStr(s) == JS("string", 0, s, EmptyDays)
JArray == JS("array", 0, "", EmptyDays)
JObject(m) == JS("object", 0, "", m)

\* !x is false
truthy(j) ==
  CASE j.t \in {"undefined", "null"} -> FALSE
    [] j.t = "number" -> j.n # 0
    [] j.t = "string" -> j.s # ""
    [] OTHER -> TRUE

typeOf(j) == IF j.t \in {"null", "array", "object"} THEN "object" ELSE j.t

\* A top-level value with the fields of StoreData; a value that is no object has
\* no fields (reading one gives undefined).
JDoc(t, version, dayField, lastCleanupTime, startTime, interval) ==
  [t |-> t, version |-> version, days |-> dayField, lastCleanupTime |-> lastCleanupTime,
   startTime |-> startTime, aggregationInterval |-> interval]

JPlain(t) == JDoc(t, JUndefined, JUndefined, JUndefined, JUndefined, JUndefined)

\* HeartbeatData.appWindow is optional: the property is absent, holds undefined, or
\* holds a value.
AppWindowFields ==
  { [present |-> "absent", app |-> "", title |-> ""],
    [present |-> "undefined", app |-> "", title |-> ""],
    [present |-> "value", app |-> "Code", title |-> "main.ts"] }

AdapterDayMaps ==
  {EmptyDays}
  \cup { [k \in {0} |-> <<Heartbeat(1, [userActivity |-> "active", appWindow |-> w])>>] :
           w \in AppWindowFields }

\* The StoreData values handed to saveData: any version and days map; the time of
\* the last cleanup and the start time vary with the interval.
StoreDataValues ==
  { JDoc("object", JNum(v), JObject(m), JNum(i \div 10), JNum(i % 10), JNum(i)) :
      v \in (-1)..MaxVersion, m \in AdapterDayMaps, i \in AggregationIntervals }

\* What JSON.stringify writes and JSON.parse reads back: a property that holds
\* undefined is left out.
jsonDays(m) ==
  [k \in DOMAIN m |->
     [i \in 1..Len(m[k]) |->
        [m[k][i] EXCEPT !.data.appWindow.present =
                          IF @ = "undefined" THEN "absent" ELSE @]]]

jsonField(j) == IF j.t = "object" THEN JObject(jsonDays(j.m)) ELSE j

JSON_stringify(data) ==
  [parses |-> TRUE,
   value |-> JDoc(data.t, jsonField(data.version), jsonField(data.days),
                  jsonField(data.lastCleanupTime), jsonField(data.startTime),
                  jsonField(data.aggregationInterval))]

\* The texts found in a store file: text that is no JSON, and the JSON of values of
\* every kind, objects with and without the fields of StoreData.
GarbageText == [parses |-> FALSE, value |-> JPlain("null")]

VersionFields == {JUndefined, JNull, JNum(0), JNum(1), JStr(""), JStr("1")}
DaysFields == {JUndefined, JNull, JNum(1), JStr("days"), JArray} \cup
              { JObject(jsonDays(m)) : m \in AdapterDayMaps }

FileTexts ==
  {GarbageText}
  \cup { [parses |-> TRUE, value |-> JPlain(t)] : t \in {"null", "number", "string", "array"} }
  \cup { [parses |-> TRUE, value |-> JDoc("object", v, d, JNum(0), JNum(0), JNum(15))] :
           v \in VersionFields, d \in DaysFields }

\* A file: <<>> when there is none, else whether it can be read and its text.
AdapterFiles ==
  {<<>>} \cup { <<[readable |-> r, text |-> x]>> : r \in BOOLEAN, x \in FileTexts }

validateStoreData(data) ==
  ~(~truthy(data.version) \/ ~truthy(data.days) \/ typeOf(data.days) # "object")

\* A mutant of StorageAdapter_loadData: the parsed value is returned unvalidated.
StorageAdapter_loadData_noValidate(a, mkdirOk) ==
  IF a.filePath = "" THEN [a |-> a, result |-> <<>>]
  ELSE IF ~a.dirExists /\ ~mkdirOk THEN [a |-> a, result |-> <<>>]
  ELSE LET made == [a EXCEPT !.dirExists = TRUE]
       IN IF a.file = <<>> THEN [a |-> made, result |-> <<>>]
          ELSE IF ~a.file[1].readable THEN [a |-> made, result |-> <<>>]
          ELSE IF ~a.file[1].text.parses THEN [a |-> made, result |-> <<>>]
          ELSE [a |-> made, result |-> <<a.file[1].text.value>>]

\* loadData(): the adapter's surroundings afterwards and the value returned (<<>>
\* for null); mkdirOk: creating the directory, when it is missing, succeeds.
StorageAdapter_loadData(a, mkdirOk) ==
  IF a.filePath = "" THEN [a |-> a, result |-> <<>>]
  ELSE IF ~a.dirExists /\ ~mkdirOk THEN [a |-> a, result |-> <<>>]
  ELSE LET made == [a EXCEPT !.dirExists = TRUE]
       IN IF a.file = <<>> THEN [a |-> made, result |-> <<>>]
          ELSE IF ~a.file[1].readable THEN [a |-> made, result |-> <<>>]
          ELSE IF ~a.file[1].text.parses THEN [a |-> made, result |-> <<>>]
          ELSE LET parsedData == a.file[1].text.value
               IN IF parsedData.t = "null" \/ typeOf(parsedData) # "object"
                  THEN [a |-> made, result |-> <<>>]
                  ELSE IF ~validateStoreData(parsedData) THEN [a |-> made, result |-> <<>>]
                  ELSE [a |-> made, result |-> <<parsedData>>]

\* saveData(data): writeOk: writing the file succeeds.
StorageAdapter_saveData(a, data, mkdirOk, writeOk) ==
  IF a.filePath = "" THEN [a |-> a, result |-> FALSE]
  ELSE IF ~a.dirExists /\ ~mkdirOk THEN [a |-> a, result |-> FALSE]
  ELSE LET made == [a EXCEPT !.dirExists = TRUE]
       IN IF ~writeOk THEN [a |-> made, result |-> FALSE]
          ELSE [a |-> [made EXCEPT !.file = <<[readable |-> TRUE,
                                               text |-> JSON_stringify(data)]>>],
                result |-> TRUE]

Adapters ==
  { [filePath |-> p, dirExists |-> d, file |-> f] :
      p \in {"", "store.json"}, d \in BOOLEAN, f \in AdapterFiles }

AdapterInit ==
  /\ FacadeInit
  /\ ~useMockData
  /\ file = <<>>
  /\ pIn = NoPureIn
  /\ pOut = NoPureOut
  /\ sched = IntervalScheduler_new(DefaultAggregationInterval)
  /\ storage = <<>>
  /\ adapter \in { a \in Adapters : a.file # <<>> => a.dirExists }
  /\ collector = <<>>

AdapterStep(a, calls) ==
  /\ adapter' = a
  /\ trace' = calls
  /\ UNCHANGED <<facadeVars, storeVars, aggVars, trackerVars, schedVars, hbVars, now,
                 pureVars, sched, storage, collector>>

AdapterLoadData(mkdirOk) ==
  LET r == StorageAdapter_loadData(adapter, mkdirOk)
  IN AdapterStep(r.a, <<Ev("loadData", -1, mkdirOk, <<>>, r.result)>>)

AdapterSaveData(data, mkdirOk, writeOk) ==
  LET r == StorageAdapter_saveData(adapter, data, mkdirOk, writeOk)
  IN AdapterStep(r.a, <<Ev("saveData", -1, r.result, <<>>, <<data>>)>>)

\* Whether creating the directory succeeds is drawn where it is missing.
MkdirOutcomes == IF adapter # <<>> /\ adapter.dirExists THEN {TRUE} ELSE BOOLEAN

AdapterNext ==
  \/ \E mkdirOk \in MkdirOutcomes : AdapterLoadData(mkdirOk)
  \/ \E data \in StoreDataValues, mkdirOk \in MkdirOutcomes, writeOk \in BOOLEAN :
       AdapterSaveData(data, mkdirOk, writeOk)

SpecAdapter == AdapterInit /\ [][AdapterNext]_vars

\* ---- HeartbeatManager.collectHeartbeatData on its own. A watcher's
\* getHeartbeatData rejects or resolves to a partial sample, in which each field of
\* HeartbeatData is absent or has a value.
MaxWatchers == 2

AbsentField == "absent"

PartialSamples ==
  [fails : {FALSE},
   userActivity : {AbsentField} \cup Activities,
   appWindow : {AbsentField, "Chrome", "Code"}]

WatcherOutcomes ==
  PartialSamples \cup {[fails |-> TRUE, userActivity |-> AbsentField, appWindow |-> AbsentField]}

EmptyObject == [userActivity |-> AbsentField, appWindow |-> AbsentField]

\* A mutant of assignOne: a field the target has is not overwritten.
assignOne_keepFirst(target, source) ==
  [userActivity |-> IF target.userActivity # AbsentField THEN target.userActivity
                    ELSE source.userActivity,
   appWindow |-> IF target.appWindow # AbsentField THEN target.appWindow
                 ELSE source.appWindow]

\* Object.assign(target, source): the source's own fields are copied over.
assignOne(target, source) ==
  [userActivity |-> IF source.userActivity # AbsentField THEN source.userActivity
                    ELSE target.userActivity,
   appWindow |-> IF source.appWindow # AbsentField THEN source.appWindow
                 ELSE target.appWindow]

\* Object.assign({}, ...results)
RECURSIVE objectAssign(_, _)
objectAssign(target, results) ==
  IF results = <<>> THEN target
  ELSE objectAssign(assignOne(target, Head(results)), Tail(results))

InactiveOnly == [userActivity |-> "inactive", appWindow |-> AbsentField]

collectHeartbeatData(c) ==
  IF ~c.isInitialized THEN InactiveOnly
  ELSE IF \E i \in 1..Len(c.watchers) : c.watchers[i].fails THEN InactiveOnly
  ELSE LET combinedData == objectAssign(EmptyObject, c.watchers)
       IN IF combinedData.userActivity = AbsentField
          THEN [combinedData EXCEPT !.userActivity = "inactive"]
          ELSE combinedData

Collectors ==
  [isInitialized : BOOLEAN, watchers : SeqsUpTo(WatcherOutcomes, MaxWatchers)]

CollectInit ==
  /\ FacadeInit
  /\ ~useMockData
  /\ file = <<>>
  /\ pIn = NoPureIn
  /\ pOut = NoPureOut
  /\ sched = IntervalScheduler_new(DefaultAggregationInterval)
  /\ storage = <<>>
  /\ adapter = <<>>
  /\ collector \in Collectors

\* generateHeartbeat awaits collectHeartbeatData().
CollectHeartbeatData ==
  /\ trace' = <<EvCall("collectHeartbeatData"), EvReturn(-1, collectHeartbeatData(collector))>>
  /\ UNCHANGED <<facadeVars, storeVars, aggVars, trackerVars, schedVars, hbVars, now,
                 pureVars, sched, storage, adapter, collector>>

CollectNext == CollectHeartbeatData

SpecCollect == CollectInit /\ [][CollectNext]_vars

\* ---- the facade and its HeartbeatManager from construction on: initialization of
\* the watchers, the manager's start and stop, its samples, and the facade's own
\* startTracking, pauseTracking and addHeartbeat; the writes to the file succeed
StartupNext ==
  \/ \E ok \in BOOLEAN : HbInit(ok)
  \/ HbStart
  \/ HbStop
  \/ HbGenerate
  \/ \E i \in 1..MaxInFlight, d \in SysSamples : HbDeliver(i, d, TRUE)
  \/ HbCleanup
  \/ StartTracking
  \/ PauseTracking(TRUE)
  \/ \E d \in SysSamples : AddHeartbeat(d, TRUE)

SpecStartup == Init /\ [][StartupNext]_vars

\* ---- AggregationService.aggregateDay on drawn days
\* Heartbeats are drawn on a grid of MaxSlot + 1 instants, one smallest aggregation
\* interval apart, from 09:00 of the day on.
MaxSlot == 6

SlotMinutes == CHOOSE i \in AggregationIntervals : \A j \in AggregationIntervals : i <= j
TimelineStart == 9 * 60 * MsPerMinute
slotTime(k) == TimelineStart + k * SlotMinutes * MsPerMinute

\* The day sequences drawn: timestamps strictly increasing, as the clock stamps them.
TimelineDaySequences ==
  { h \in SeqsUpTo({ Heartbeat(slotTime(k), d) : k \in 0..MaxSlot, d \in Samples }, MaxLen) :
      \A i \in 1..(Len(h) - 1) : h[i].timestamp < h[i + 1].timestamp }

\* PureDay holds the drawn sequence, OtherDay has no record.
TimelineInit ==
  /\ useMockData = FALSE
  /\ trackerUseMockData = FALSE
  /\ callbacksSet = FALSE
  /\ days \in { (PureDay :> h) : h \in TimelineDaySequences }
  /\ file = <<>>
  /\ aggregationInterval \in AggregationIntervals
  /\ aggregationCache = EmptyDays
  /\ isTracking = FALSE
  /\ now = 0
  /\ currentDayKey = getDateKey(now)
  /\ schedRunning = FALSE
  /\ schedTimer = FALSE
  /\ schedInterval = aggregationInterval
  /\ hbInitialized = FALSE
  /\ hbRunning = FALSE
  /\ hbInFlight = <<>>
  /\ trace = <<>>
  /\ pIn = NoPureIn
  /\ pOut = NoPureOut
  /\ sched = IntervalScheduler_new(DefaultAggregationInterval)
  /\ UnitsNotBuilt

\* aggregationService.aggregateDay(dateKey)
AggregateDay(dateKey) ==
  /\ aggregationCache' =
       [k \in (DOMAIN aggregationCache) \cup {dateKey} |->
          IF k = dateKey THEN aggregateDayEntry(days, dateKey, aggregationInterval)
          ELSE aggregationCache[k]]
  /\ trace' = <<EvDay("aggregateDay", dateKey)>>
  /\ UNCHANGED <<facadeVars, storeVars, aggregationInterval, trackerVars, schedVars,
                 hbVars, now, pureVars, unitVars>>

TimelineNext == \E dateKey \in {PureDay, OtherDay} : AggregateDay(dateKey)

SpecTimeline == TimelineInit /\ [][TimelineNext]_vars

\* ---- ActivityStorage.addHeartbeat, call after call on one day that starts without
\* a record; every call carries a later timestamp than the one before.
MaxBuildTs == 5

lastTimestamp(heartbeats) ==
  IF Len(heartbeats) = 0 THEN 0 ELSE heartbeats[Len(heartbeats)].timestamp

BuildAddHeartbeat(timestamp, heartbeatData) ==
  /\ timestamp > lastTimestamp(ActivityState_getHeartbeats(days, PureDay))
  /\ days' = ActivityStorage_addHeartbeat(days, timestamp, heartbeatData, PureDay)
  /\ trace' = <<EvDay("addHeartbeat", PureDay)>>
  /\ UNCHANGED <<facadeVars, file, aggVars, trackerVars, schedVars, hbVars, now,
                 pureVars, unitVars>>

BuildNext ==
  \E timestamp \in 1..MaxBuildTs, heartbeatData \in Samples :
    BuildAddHeartbeat(timestamp, heartbeatData)

SpecBuild == Init /\ [][BuildNext]_vars

\* ---- the coordinator under a clock that is also set back (Date.now() follows the
\* system clock); the writes to the file succeed
ClockSetBack ==
  /\ now > 0
  /\ now' = now - 1
  /\ trace' = <<>>
  /\ UNCHANGED <<facadeVars, storeVars, aggVars, trackerVars, schedVars, hbVars,
                 pureVars, unitVars>>

DayNext ==
  \/ StartTracking
  \/ PauseTracking(TRUE)
  \/ \E d \in SysSamples : AddHeartbeat(d, TRUE)
  \/ ClockTick
  \/ ClockSetBack

SpecDay == Init /\ [][DayNext]_vars

\* ---- the coordinator's tracking state and its status subscriber, within one
\* clock value: the facade's calls, samples, ticks and the cleanup
StatusNext ==
  \/ SetCallbacks
  \/ StartTracking
  \/ \E ok \in BOOLEAN : PauseTracking(ok)
  \/ \E d \in SysSamples : AddHeartbeat(d, TRUE)
  \/ SchedulerFire(TRUE)
  \/ FacadeCleanup(TRUE)

SpecStatus == Init /\ [][StatusNext]_vars

\* ---- ActivityStorage on its own: samples and saves between relocations
MoveNext ==
  \/ \E d \in {NullDir, "custom"}, fail \in RelocationFailures : UpdateStoragePath(d, fail)
  \/ \E ok \in BOOLEAN : PurgeSaveToDisk(ok)
  \/ PurgeAddHeartbeat

\* The store as constructed or just saved: the file at its path, when there is one,
\* holds the in-memory data.
MoveInit ==
  /\ RelocateInit
  /\ storage.files[storage.dataFilePath] \in {NoFile, StoreFile(storage.data)}

SpecMove == MoveInit /\ [][MoveNext]_vars

\* ---- the facade's reads of a day while its ActivityStorage is relocated or
\* purged. storage is the facade's ActivityStorage with the files it reaches; days
\* is its ActivityState's days map (storage.data.days), which the reads go to.
StaleInit ==
  /\ useMockData = FALSE
  /\ trackerUseMockData = FALSE
  /\ callbacksSet = FALSE
  /\ storage \in RelocationStorages
  /\ days = storage.data.days
  /\ file = <<>>
  /\ aggregationInterval = DefaultAggregationInterval
  /\ aggregationCache = EmptyDays
  /\ isTracking = FALSE
  /\ now = storage.now
  /\ currentDayKey = getDateKey(now)
  /\ schedRunning = FALSE
  /\ schedTimer = FALSE
  /\ schedInterval = aggregationInterval
  /\ hbInitialized = FALSE
  /\ hbRunning = FALSE
  /\ hbInFlight = <<>>
  /\ trace = <<>>
  /\ pIn = NoPureIn
  /\ pOut = NoPureOut
  /\ sched = IntervalScheduler_new(DefaultAggregationInterval)
  /\ adapter = <<>>
  /\ collector = <<>>

\* A handler of the facade that goes to its ActivityStorage only.
FacadeStorageStep(s, calls) ==
  /\ storage' = s
  /\ days' = s.data.days
  /\ trace' = calls
  /\ UNCHANGED <<facadeVars, file, aggVars, trackerVars, schedVars, hbVars, now,
                 pureVars, sched, adapter, collector>>

\* ActivityFacade.useExistingStoreFile(newDirPath)
FacadeUseExistingStoreFile(newDirPath) ==
  LET r == useExistingStoreFile(storage, newDirPath, "none")
  IN FacadeStorageStep(r.s, <<Ev("useExistingStoreFile", -1, r.result, <<>>, <<newDirPath>>)>>)

\* ActivityFacade.updateStoragePath(newDirPath)
FacadeUpdateStoragePath(newDirPath) ==
  LET r == updateStoragePath(storage, newDirPath, "none")
  IN FacadeStorageStep(r.s, <<Ev("updateStoragePath", -1, r.result, <<>>, <<newDirPath>>)>>)

\* ActivityFacade.cleanupOldData()
FacadeCleanupOldData ==
  LET r == cleanupOldData(storage, TRUE)
  IN FacadeStorageStep(r.s, <<EvCall("cleanupOldData")>> \o r.calls)

StaleClockTick ==
  /\ now < PurgeStart + MaxPurgeTicks
  /\ now' = now + 1
  /\ storage' = [storage EXCEPT !.now = now + 1]
  /\ trace' = <<>>
  /\ UNCHANGED <<facadeVars, storeVars, aggVars, trackerVars, schedVars, hbVars,
                 pureVars, sched, adapter, collector>>

StaleNext ==
  \/ \E d \in StoreDirs : FacadeUseExistingStoreFile(d)
  \/ \E d \in {NullDir, "custom"} : FacadeUpdateStoragePath(d)
  \/ FacadeCleanupOldData
  \/ StaleClockTick
  \/ \E k \in 0..MaxOldDay : FacadeGetDayData(k)

SpecStale == StaleInit /\ [][StaleNext]_vars

\* ================================================================== claims
\* The positions the claim C1 names: strictly after lastActiveIndex, timestamp
\* strictly before t, tagged may_be_inactive.
claimedTargets(h, t) ==
  { i \in 1..Len(h) :
      /\ i > lastActiveIndex(h, t)
      /\ h[i].timestamp < t
      /\ h[i].data.userActivity = "may_be_inactive" }

\* C1: for any stored day sequence and any timestamp t, a correction for an inactive
\* sample re-tags as inactive exactly the heartbeats after lastActiveIndex that are
\* before t and tagged may_be_inactive; every other heartbeat keeps its tag.
C1_ExactTargets ==
  (pOut.op = "once" /\ pIn.d.userActivity = "inactive") =>
    /\ Len(pOut.once) = Len(pureHeartbeats)
    /\ \A i \in 1..Len(pureHeartbeats) :
         pOut.once[i].data.userActivity =
           IF i \in claimedTargets(pureHeartbeats, pIn.t)
           THEN "inactive"
           ELSE pureHeartbeats[i].data.userActivity

\* C2: the correction leaves every heartbeat at or before lastActiveIndex as it was,
\* keeps length and order, and a heartbeat it changes was may_be_inactive and differs
\* from the original in userActivity alone (same timestamp, same appWindow).
C2_Frame ==
  pOut.op = "once" =>
    /\ Len(pOut.once) = Len(pureHeartbeats)
    /\ \A i \in 1..Len(pureHeartbeats) :
         /\ pOut.once[i].timestamp = pureHeartbeats[i].timestamp
         /\ pOut.once[i].data.appWindow = pureHeartbeats[i].data.appWindow
         /\ i <= lastActiveIndex(pureHeartbeats, pIn.t) =>
              pOut.once[i] = pureHeartbeats[i]
         /\ pOut.once[i] # pureHeartbeats[i] =>
              /\ pureHeartbeats[i].data.userActivity = "may_be_inactive"
              /\ pOut.once[i].data.userActivity = "inactive"

\* C2's case: a may_be_inactive heartbeat before the last active one stays, one
\* after it is rewritten.
C2_Witness ==
  /\ pOut.op = "once"
  /\ \E i, j, k \in 1..Len(pureHeartbeats) :
       /\ i < j /\ j < k
       /\ j = lastActiveIndex(pureHeartbeats, pIn.t)
       /\ pureHeartbeats[i].data.userActivity = "may_be_inactive"
       /\ pOut.once[i] = pureHeartbeats[i]
       /\ pOut.once[k] # pureHeartbeats[k]

\* C3: applying the correction to its own result, with the same timestamp and
\* sample, changes nothing.
C3_Idempotent ==
  pOut.op = "twice" => pOut.twice = pOut.once

\* C3's case: the first application rewrote two heartbeats and the second ran.
C3_Witness ==
  /\ pOut.op = "twice"
  /\ Cardinality({ i \in 1..Len(pureHeartbeats) : pOut.once[i] # pureHeartbeats[i] }) >= 2

\* C4: addHeartbeat appends exactly the new heartbeat at the end of the day's
\* sequence, creates the day when it has no record, leaves every other day as it
\* was, and leaves the day's earlier heartbeats as they were when the sample is not
\* inactive or the day holds no may_be_inactive heartbeat.
C4_AppendFrame ==
  pOut.op = "add" =>
    LET before == pureHeartbeats
        after == pOut.days[PureDay]
    IN /\ DOMAIN pOut.days = (DOMAIN pIn.days) \cup {PureDay}
       /\ Len(after) = Len(before) + 1
       /\ after[Len(after)] = Heartbeat(pIn.t, pIn.d)
       /\ \A k \in (DOMAIN pIn.days) \ {PureDay} : pOut.days[k] = pIn.days[k]
       /\ (pIn.d.userActivity # "inactive" \/ ~hasMayBeInactive(before)) =>
            SubSeq(after, 1, Len(before)) = before

\* C4's case: an inactive sample is added to a day that has heartbeats but none
\* tagged may_be_inactive, while the other day holds one before t.
C4_Witness ==
  /\ pOut.op = "add"
  /\ pIn.d.userActivity = "inactive"
  /\ Len(pureHeartbeats) >= 2
  /\ ~hasMayBeInactive(pureHeartbeats)
  /\ pIn.t > 1

\* ---- steps of the system, told by the calls recorded for the step
stepOf(op) == Len(trace') > 0 /\ trace'[1].op = op

snapshotOf(dayMap) == <<ActivityState_getFullStoreData(dayMap)>>

\* C5: a sample arriving while the coordinator is stopped changes neither the
\* store nor currentDayKey nor the file and causes no further call; that includes
\* a sample whose collection began while tracking.
C5_IgnoredWhileStopped ==
  [][ (~isTracking /\ (stepOf("addHeartbeat") \/ stepOf("generateHeartbeat.deliver")))
      => /\ days' = days
         /\ file' = file
         /\ currentDayKey' = currentDayKey
         /\ Len(trace') = 1 ]_vars

\* C5's case: a collection that began while tracking was delivered after the pause,
\* on a later calendar day than currentDayKey, with heartbeats in the store.
C5_Witness ==
  /\ ~isTracking
  /\ trace = <<EvFlag("generateHeartbeat.deliver", TRUE)>>
  /\ getDateKey(now) # currentDayKey
  /\ days # EmptyDays

\* C6: a sample accepted on a calendar day other than currentDayKey makes the
\* coordinator call saveToDisk first (a written file holds the store without the
\* sample; under mock data or a failed write the file stays), then set
\* currentDayKey to the new key, then store the sample at the end of the new day's
\* sequence; every other day's sequence stays as it was.
C6_Rollover ==
  [][ (isTracking /\ stepOf("addHeartbeat") /\ getDateKey(now) # currentDayKey)
      => LET new == getDateKey(now)
             old == ActivityState_getHeartbeats(days, new)
         IN /\ Len(trace') = 4
            /\ trace'[2].op = "saveToDisk"
            /\ trace'[3] = EvDay("setCurrentDayKey", new)
            /\ trace'[4] = EvDay("storage.addHeartbeat", new)
            /\ file' = IF trace'[2].flag THEN snapshotOf(days) ELSE file
            /\ useMockData => ~trace'[2].flag
            /\ currentDayKey' = new
            /\ DOMAIN days' = (DOMAIN days) \cup {new}
            /\ Len(days'[new]) = Len(old) + 1
            /\ days'[new][Len(old) + 1].timestamp = now
            /\ \A k \in (DOMAIN days) \ {new} : days'[k] = days[k] ]_vars

\* C6's case: the rollover's save was written, the file lacks the new day, the new
\* sample is inactive and the day before still holds a may_be_inactive heartbeat.
C6_Witness ==
  /\ Len(trace) = 4
  /\ trace[1].op = "addHeartbeat"
  /\ trace[2] = EvSave(TRUE)
  /\ file # <<>>
  /\ currentDayKey \notin DOMAIN file[1].days
  /\ currentDayKey \in DOMAIN days
  /\ days[currentDayKey][Len(days[currentDayKey])].data.userActivity = "inactive"
  /\ \E k \in (DOMAIN days) \ {currentDayKey} : hasMayBeInactive(days[k])

\* C7: a timer fire while tracking makes the coordinator, in this order, aggregate
\* currentDayKey (the cache entry becomes the aggregate of the day's heartbeats
\* as stored, the other entries stay), notify the data-update subscriber (when one
\* is installed) with that key, and call saveToDisk (a written file holds the full
\* store; under mock data or a failed write the file stays).
C7_Tick ==
  [][ (isTracking /\ stepOf("timer"))
      => LET n == Len(trace')
         IN /\ n >= 4
            /\ trace'[n].op = "saveToDisk"
            /\ trace' = <<EvCall("timer"), EvCall("handleIntervalEnd"),
                          EvDay("aggregateDay", currentDayKey)>>
                        \o (IF callbacksSet THEN <<EvDay("onDataUpdate", currentDayKey)>>
                            ELSE <<>>)
                        \o <<trace'[n]>>
            /\ file' = IF trace'[n].flag THEN snapshotOf(days) ELSE file
            /\ useMockData => ~trace'[n].flag
            /\ DOMAIN aggregationCache' = (DOMAIN aggregationCache) \cup {currentDayKey}
            /\ aggregationCache'[currentDayKey] =
                 aggregateDayEntry(days, currentDayKey, aggregationInterval)
            /\ \A k \in (DOMAIN aggregationCache) \ {currentDayKey} :
                 aggregationCache'[k] = aggregationCache[k] ]_vars

\* C7's case: a tick with a subscriber installed aggregated a day that has
\* heartbeats and wrote the file.
C7_Witness ==
  /\ Len(trace) = 5
  /\ trace[1].op = "timer"
  /\ trace[4] = EvDay("onDataUpdate", currentDayKey)
  /\ trace[5] = EvSave(TRUE)
  /\ currentDayKey \in DOMAIN aggregationCache
  /\ Len(aggregationCache[currentDayKey].timelineEvents) >= 2
  /\ file = snapshotOf(days)

\* C8: pauseTracking from state tracking pauses the Scheduler, then calls
\* saveToDisk (a written file holds the full store), then notifies the status
\* subscriber (when one is installed) with false; while the coordinator is stopped
\* the Scheduler is not running, no timer is pending and no timer fires.
C8_Pause ==
  /\ [](~isTracking => (~schedRunning /\ ~schedTimer))
  /\ [][ /\ (isTracking /\ stepOf("pauseTracking"))
            => /\ ~isTracking'
               /\ ~schedRunning'
               /\ ~schedTimer'
               /\ Len(trace') >= 3
               /\ trace'[3].op = "saveToDisk"
               /\ trace' = <<EvCall("pauseTracking"), EvCall("scheduler.pause"), trace'[3]>>
                           \o (IF callbacksSet
                               THEN <<EvFlag("onTrackingStatusChange", FALSE)>>
                               ELSE <<>>)
               /\ file' = IF trace'[3].flag THEN snapshotOf(days) ELSE file
               /\ useMockData => ~trace'[3].flag
         /\ ~isTracking => ~stepOf("timer") ]_vars

\* C8's case: tracking with heartbeats in the store was paused with a subscriber
\* installed and the save was written.
C8_Witness ==
  /\ ~isTracking
  /\ Len(trace) = 4
  /\ trace[1].op = "pauseTracking"
  /\ trace[3] = EvSave(TRUE)
  /\ days # EmptyDays
  /\ file = snapshotOf(days)

\* C9: when the facade is constructed with useMockData = true the Scheduler is
\* never started: it is not running and no timer is pending, so no tick fires.
C9_MockNoScheduler ==
  useMockData => (~schedRunning /\ ~schedTimer)

\* C10: getAggregatedData(dayKey) returns the cached entry and leaves the cache as
\* it is when the day has an entry; otherwise it returns, and stores in the cache,
\* the entry aggregateDay would produce from the day's heartbeats at the current
\* interval (the summary being calculateSummary of the timeline events).
C10_GetAggregatedData ==
  [][ stepOf("getAggregatedData")
      => LET day == trace'[1].day
             ret == trace'[2].agg[1]
         IN IF day \in DOMAIN aggregationCache
            THEN /\ ret = aggregationCache[day]
                 /\ aggregationCache' = aggregationCache
            ELSE /\ ret = aggregateDayEntry(days, day, aggregationInterval)
                 /\ DOMAIN aggregationCache' = (DOMAIN aggregationCache) \cup {day}
                 /\ aggregationCache'[day] = ret
                 /\ \A k \in DOMAIN aggregationCache :
                      aggregationCache'[k] = aggregationCache[k] ]_vars

\* ---- an entry of the cache computed under an interval: every event lasts a whole
\* number of intervals, and the events together last at most one interval per
\* heartbeat the day holds.
computedUnder(entry, heartbeats, intervalMinutes) ==
  LET events == entry.timelineEvents
      unit == intervalMinutes * MsPerMinute
  IN /\ \A i \in 1..Len(events) :
          events[i].duration > 0 /\ events[i].duration % unit = 0
     /\ sumDurations(events, 1..Len(events)) <= Len(heartbeats) * unit

\* C11: setAggregationInterval(v) with v in {5,10,15} sets the interval and leaves
\* the cache empty; in every state each cache entry was computed under the current
\* interval; a getAggregatedData for a day without an entry (as every day is after
\* the change) computes the timeline events from the stored heartbeats at the
\* current interval and caches them.
C11_IntervalClearsCache ==
  /\ [](\A k \in DOMAIN aggregationCache :
          computedUnder(aggregationCache[k], ActivityState_getHeartbeats(days, k),
                        aggregationInterval))
  /\ [][ /\ (stepOf("setAggregationInterval") /\ trace'[1].day \in AggregationIntervals)
            => /\ aggregationInterval' = trace'[1].day
               /\ aggregationCache' = EmptyDays
         /\ (stepOf("getAggregatedData") /\ trace'[1].day \notin DOMAIN aggregationCache)
            => LET day == trace'[1].day
                   ret == trace'[2].agg[1]
               IN /\ ret.timelineEvents =
                       generateTimelineEvents(ActivityState_getHeartbeats(days, day),
                                              aggregationInterval)
                  /\ day \in DOMAIN aggregationCache'
                  /\ aggregationCache'[day] = ret ]_vars

\* C11's case: the interval was changed from the default while the cache held
\* entries and the store held heartbeats; the cache is empty.
C11_Witness ==
  /\ Len(trace) = 2
  /\ trace[1].op = "setAggregationInterval"
  /\ trace[2] = EvFlag("clearCache", TRUE)
  /\ aggregationInterval = trace[1].day
  /\ aggregationInterval # DefaultAggregationInterval
  /\ aggregationCache = EmptyDays
  /\ days # EmptyDays

\* C12: setAggregationInterval with a value outside {5,10,15} keeps the interval,
\* keeps the cache and changes nothing else.
C12_InvalidIntervalRejected ==
  [][ (stepOf("setAggregationInterval") /\ trace'[1].day \notin AggregationIntervals)
      => /\ Len(trace') = 1
         /\ UNCHANGED <<facadeVars, storeVars, aggVars, trackerVars, schedVars, hbVars,
                        now, pureVars, unitVars>> ]_vars

\* C12's case: an invalid value was refused while the interval was not the default
\* and the cache held an entry.
C12_Witness ==
  /\ trace = <<EvDay("setAggregationInterval", InvalidInterval)>>
  /\ aggregationInterval # DefaultAggregationInterval
  /\ aggregationCache # EmptyDays

\* C13: a sample leaves the cache exactly as it was, and so does every step that is
\* neither an interval tick nor an interval change: the entry of every cached day
\* stays what it was (a read may add an entry for a day that had none).
C13_NoInvalidationOnAdd ==
  [][ /\ stepOf("addHeartbeat") => aggregationCache' = aggregationCache
      /\ ~(stepOf("timer") \/ stepOf("setAggregationInterval"))
         => \A k \in DOMAIN aggregationCache :
              k \in DOMAIN aggregationCache' /\ aggregationCache'[k] = aggregationCache[k]
    ]_vars

\* C13's case: a sample was stored for a day whose cached entry, computed before,
\* no longer equals the aggregate of the day's heartbeats.
C13_Witness ==
  /\ Len(trace) >= 2
  /\ trace[1].op = "addHeartbeat"
  /\ trace[Len(trace)] = EvDay("storage.addHeartbeat", currentDayKey)
  /\ currentDayKey \in DOMAIN aggregationCache
  /\ aggregationCache[currentDayKey].timelineEvents # <<>>
  /\ aggregationCache[currentDayKey]
       # aggregateDayEntry(days, currentDayKey, aggregationInterval)

\* C14: once a day rollover has been handled, the cached aggregate of the day that
\* just ended is the aggregate of all heartbeats stored for that day.
C14_RolloverReaggregates ==
  [][ (isTracking /\ stepOf("addHeartbeat") /\ getDateKey(now) # currentDayKey
       /\ currentDayKey \in DOMAIN aggregationCache')
      => aggregationCache'[currentDayKey]
           = aggregateDayEntry(days', currentDayKey, aggregationInterval') ]_vars

\* ---- the save attempts of a handler
saveAttempts(calls) == { i \in 1..Len(calls) : calls[i].op = "saveToDisk" }

tickOrPause(calls) == Len(calls) > 0 /\ calls[1].op \in {"timer", "pauseTracking"}

\* C15: on persistent storage every sample accepted while tracking is followed by a
\* save attempt of a tick or of pauseTracking; such an attempt writes the full
\* current store when it succeeds; a handler attempts a save at most once; a failed
\* save leaves the file and the in-memory store as they are (heartbeats are never
\* dropped) and, on a tick, leaves tracking on with the next timeout pending.
C15_SavedLater ==
  /\ (/\ ~useMockData
      /\ Len(trace) > 1
      /\ trace[1].op = "addHeartbeat"
      /\ trace[Len(trace)].op = "storage.addHeartbeat")
     ~> (tickOrPause(trace) /\ saveAttempts(trace) # {} /\ days # EmptyDays)
  /\ [][ /\ Cardinality(saveAttempts(trace')) <= 1
         /\ \A k \in DOMAIN days :
              /\ k \in DOMAIN days'
              /\ Len(days'[k]) >= Len(days[k])
              /\ \A i \in 1..Len(days[k]) : days'[k][i].timestamp = days[k][i].timestamp
         /\ (tickOrPause(trace') /\ saveAttempts(trace') # {})
            => LET written == trace'[CHOOSE i \in saveAttempts(trace') : TRUE].flag
               IN /\ days' = days
                  /\ file' = IF written THEN snapshotOf(days) ELSE file
                  /\ (~written /\ stepOf("timer"))
                     => (isTracking' /\ schedRunning' /\ schedTimer') ]_vars

\* C15's case: on persistent storage a tick's save failed: the file lacks heartbeats
\* the store holds, tracking goes on and the next timeout is pending.
C15_Witness ==
  /\ ~useMockData
  /\ Len(trace) > 1
  /\ trace[1].op = "timer"
  /\ trace[Len(trace)] = EvSave(FALSE)
  /\ days # EmptyDays
  /\ file # snapshotOf(days)
  /\ isTracking
  /\ schedTimer

\* C16: in every state of the Scheduler at most one timeout is pending, and none
\* is pending while the Scheduler is not running.
C16_SingleTimer ==
  /\ pendingTimers(sched) <= 1
  /\ ~sched.isRunning => pendingTimers(sched) = 0

\* C17: a firing timeout creates no timeout before the callback has exited; when
\* the callback exits, by return or by throw, exactly one timeout is pending if the
\* Scheduler is running, and none is created if it is not.
C17_NextAfterExit ==
  [][ /\ stepOf("timer")
         => /\ ~sched.inCallback
            /\ pendingTimers(sched') = pendingTimers(sched) - 1
      /\ stepOf("callback.exit")
         => /\ ~sched'.inCallback
            /\ IF sched.isRunning THEN pendingTimers(sched') = 1
               ELSE pendingTimers(sched') = pendingTimers(sched) ]_vars

\* C18: setInterval(m) keeps the running state and sets the interval; if the
\* Scheduler was running, exactly one timeout is pending afterwards and it uses m;
\* if it was not, no timeout is pending; the next start uses the interval set.
C18_SetInterval ==
  [][ /\ stepOf("scheduler.setInterval")
         => LET m == trace'[1].day * MsPerMinute
            IN /\ sched'.isRunning = sched.isRunning
               /\ sched'.intervalMillis = m
               /\ IF sched.isRunning
                  THEN sched'.timer = m /\ pendingTimers(sched') = 1
                  ELSE pendingTimers(sched') = 0
      /\ (stepOf("scheduler.start") /\ ~sched.isRunning)
         => sched'.timer = sched.intervalMillis ]_vars

\* C19: getDayData(dayKey) of the store: today's key stands in when no key is
\* given; the result is null when the key does not have the form YYYY-MM-DD, null
\* when a day other than today has no heartbeats, an empty heartbeat list when
\* today has none, and the stored heartbeats otherwise; the store is not modified.
C19_StorageGetDayData ==
  [][ stepOf("storage.getDayData")
      => LET dayKey == trace'[1].day
             result == trace'[2].agg[1]
             today == getDateKey(now)
             target == IF dayKey = NoKey THEN today ELSE dayKey
             stored == ActivityState_getHeartbeats(days, target)
         IN /\ UNCHANGED storeVars
            /\ IF dayKey \in {MalformedKey, EmptyKey} THEN result.isNull
               ELSE IF stored = <<>>
                    THEN IF target = today
                         THEN ~result.isNull /\ result.heartbeats = <<>>
                         ELSE result.isNull
               ELSE ~result.isNull /\ result.heartbeats = stored ]_vars

\* C20: a malformed day key passed to the facade's getDayData yields a null result
\* and leaves the store and the aggregation cache unchanged.
C20_FacadeMalformedKey ==
  [][ (stepOf("facade.getDayData") /\ trace'[1].day = MalformedKey)
      => /\ trace'[2].agg[1].isNull
         /\ UNCHANGED <<storeVars, aggregationCache>> ]_vars

\* C21: getAvailableDates() returns the stored day keys together with today's
\* key, each once, in ascending order; today's key is there when today has no
\* heartbeat and after cleanupOldData has run.
C21_AvailableDates ==
  [][ stepOf("getAvailableDates")
      => LET dates == trace'[2].agg[1]
             today == getDateKey(storage.now)
         IN /\ { dates[i] : i \in 1..Len(dates) } = (DOMAIN storage.data.days) \cup {today}
            /\ \A i, j \in 1..Len(dates) : i < j => dates[i] < dates[j]
            /\ UNCHANGED storage ]_vars

\* Today has no record, old days have been purged, and the list is read.
C21_Witness ==
  /\ Len(trace) > 0
  /\ trace[1].op = "getAvailableDates"
  /\ getDateKey(storage.now) \notin DOMAIN storage.data.days
  /\ storage.data.lastCleanupTime > PurgeStart
  /\ storage.data.days # EmptyDays

\* C22: a call of cleanupOldData less than 24 hours after the last scan deletes
\* nothing, leaves lastCleanupTime as it is and does not save.
C22_OncePerDay ==
  [][ (stepOf("cleanupOldData") /\ storage.now - storage.data.lastCleanupTime < oneDayMs)
      => /\ UNCHANGED storage
         /\ Len(trace') = 1 ]_vars

\* A scan has run in this behaviour and a later call within 24 hours found days
\* that are old by then.
C22_Witness ==
  /\ Len(trace) = 1
  /\ trace[1].op = "cleanupOldData"
  /\ ~storage.useMockData
  /\ storage.data.lastCleanupTime > PurgeStart
  /\ storage.now > storage.data.lastCleanupTime
  /\ getDatesOlderThan(storage.data, storage.now - RetentionDays * oneDayMs) # {}

\* C23: a scan deletes exactly the stored days whose UTC midnight is before the
\* cutoff, the cutoff being the UTC midnight 30 days before now.
C23_CutoffAtMidnight ==
  [][ (stepOf("cleanupOldData") /\ Len(trace') > 1)
      => LET cutoff == midnightUTC(getDateKey(storage.now - RetentionDays * oneDayMs))
         IN DOMAIN storage'.data.days =
              { k \in DOMAIN storage.data.days : ~(midnightUTC(k) < cutoff) } ]_vars

\* C24: a scan sets lastCleanupTime to now and attempts a save, whether or not a
\* day was deleted; under mock data cleanupOldData and saveToDisk change neither
\* the store nor the file.
C24_ScanUpdatesAndSaves ==
  [][ /\ ( /\ stepOf("cleanupOldData")
           /\ ~storage.useMockData
           /\ storage.now - storage.data.lastCleanupTime >= oneDayMs )
         => /\ storage'.data.lastCleanupTime = storage.now
            /\ Cardinality(saveAttempts(trace')) = 1
            /\ trace'[Len(trace')].flag
                 => storage'.files[storage.dataFilePath] = StoreFile(storage'.data)
      /\ ( /\ stepOf("cleanupOldData") \/ stepOf("storage.saveToDisk")
           /\ storage.useMockData )
         => /\ UNCHANGED storage
            /\ saveAttempts(trace') = {} ]_vars

\* A scan that found nothing to delete has updated the time and written the file.
C24_Witness ==
  /\ Len(trace) > 1
  /\ trace[1].op = "cleanupOldData"
  /\ trace[Len(trace)].flag
  /\ storage.data.lastCleanupTime = storage.now
  /\ storage.data.days = storage.files[storage.dataFilePath][1].data.days
  /\ storage.data.days \in OldDayMaps
  /\ Cardinality(DOMAIN storage.data.days) = MaxOldDay + 1

\* C25: when updateStoragePath(newDir) returns false, the storage's file path,
\* its settings entry, the in-memory store and the files are as before the call.
C25_FailureLeavesState ==
  [][ (stepOf("updateStoragePath") /\ ~trace'[1].flag) => UNCHANGED storage ]_vars

\* C26: useExistingStoreFile(newDir) returns true only when the file at newDir was
\* loaded and has replaced the in-memory store, and returns false when there is no
\* valid store file at newDir.
C26_TrueOnlyWhenLoaded ==
  [][ stepOf("useExistingStoreFile")
      => LET newDir == trace'[1].agg[1]
             data == persistence_loadData(storage.files, newDir)
         IN /\ trace'[1].flag => (data # <<>> /\ storage'.data = data[1])
            /\ data = <<>> => ~trace'[1].flag ]_vars

\* C27: load() returns null when the file is missing, unreadable, not parseable
\* or structurally invalid, and returns the parsed value exactly when that value is
\* an object with a truthy version and a days field that is an object (typeof); it
\* leaves an existing file as it is.
C27_LoadFailsSoft ==
  [][ stepOf("loadData")
      => LET result == trace'[1].agg
             readable == /\ adapter.filePath # ""
                         /\ adapter.dirExists \/ trace'[1].flag
                         /\ adapter.file # <<>>
                         /\ adapter.file[1].readable
                         /\ adapter.file[1].text.parses
             parsed == adapter.file[1].text.value
             accepted == /\ parsed.t \in {"object", "array"}
                         /\ truthy(parsed.version)
                         /\ parsed.days.t \in {"object", "array"}
         IN /\ adapter'.file = adapter.file
            /\ IF readable /\ accepted THEN result = <<parsed>> ELSE result = <<>> ]_vars

\* A file whose JSON is an object with a version and a days map has been loaded.
C27_Witness ==
  /\ Len(trace) = 1
  /\ trace[1].op = "loadData"
  /\ trace[1].agg # <<>>
  /\ trace[1].agg[1].days.t = "object"
  /\ trace[1].agg[1].days.m # EmptyDays

\* The values are equal as structures: a property that holds undefined counts as
\* one that is absent.
structurallyEqual(a, b) == JSON_stringify(a).value = JSON_stringify(b).value

\* C28: after a successful save(s), load() on the same path returns a StoreData
\* structurally equal to s.
C28_RoundTrip ==
  [][ (stepOf("saveData") /\ trace'[1].flag)
      => LET loaded == StorageAdapter_loadData(adapter', TRUE).result
         IN /\ loaded # <<>>
            /\ structurallyEqual(loaded[1], trace'[1].agg[1]) ]_vars

\* The value a field has after the merge: that of the last watcher, in
\* registration order, whose partial sample has the field; absent if none has it.
lastSupplied(watchers, field) ==
  LET having == { i \in 1..Len(watchers) : watchers[i][field] # AbsentField }
  IN IF having = {} THEN AbsentField
     ELSE watchers[CHOOSE i \in having : \A j \in having : j <= i][field]

\* C29: the heartbeat of a sampling tick is the merge of the watchers' partial
\* samples in registration order, a later watcher's field overriding an earlier
\* one's, with userActivity inactive when no watcher supplies it; if a watcher's
\* getHeartbeatData fails the heartbeat is exactly {userActivity: inactive}.
C29_Merge ==
  [][ (stepOf("collectHeartbeatData") /\ collector.isInitialized)
      => LET heartbeatData == trace'[2].agg[1]
             w == collector.watchers
         IN IF \E i \in 1..Len(w) : w[i].fails
            THEN heartbeatData = [userActivity |-> "inactive", appWindow |-> AbsentField]
            ELSE /\ heartbeatData.appWindow = lastSupplied(w, "appWindow")
                 /\ heartbeatData.userActivity =
                      IF lastSupplied(w, "userActivity") = AbsentField THEN "inactive"
                      ELSE lastSupplied(w, "userActivity") ]_vars

\* Two watchers supplied the same two fields with different values and the merge
\* was taken.
C29_Witness ==
  /\ Len(trace) = 2
  /\ trace[1].op = "collectHeartbeatData"
  /\ collector.isInitialized
  /\ Len(collector.watchers) = 2
  /\ ~collector.watchers[1].fails
  /\ ~collector.watchers[2].fails
  /\ collector.watchers[1].userActivity = "active"
  /\ collector.watchers[2].userActivity = "may_be_inactive"
  /\ collector.watchers[1].appWindow = "Chrome"
  /\ collector.watchers[2].appWindow = "Code"
  /\ trace[2].agg[1] = [userActivity |-> "may_be_inactive", appWindow |-> "Code"]

\* C30: a failed init leaves the manager uninitialized; while it is uninitialized
\* with nothing under way, tracking cannot start: until an init succeeds no
\* heartbeat generation starts, the coordinator does not enter tracking and no
\* sample is accepted into the store.
C30_NoTrackingWithoutInit ==
  [][ /\ (stepOf("heartbeat.init") /\ ~hbInitialized /\ ~trace'[1].flag)
         => ~hbInitialized'
      /\ ( /\ ~hbInitialized
           /\ ~hbRunning
           /\ hbInFlight = <<>>
           /\ ~isTracking
           /\ ~(stepOf("heartbeat.init") /\ hbInitialized') )
         => /\ ~hbRunning'
            /\ hbInFlight' = <<>>
            /\ ~isTracking'
            /\ days' = days ]_vars

\* The last aggregateDay call's day, its heartbeats and the events it cached.
aggregatedDay == trace[1].day
aggregatedHeartbeats == ActivityState_getHeartbeats(days, aggregatedDay)
aggregatedEvents == aggregationCache[aggregatedDay].timelineEvents
justAggregated == Len(trace) > 0 /\ trace[1].op = "aggregateDay"

\* C31: for every heartbeat sequence of a day and every interval in {5, 10, 15}, the
\* events aggregation produces are in non-decreasing timestamp order, do not
\* overlap (each event's timestamp + duration is at or before the next event's
\* timestamp), and their durations sum to the number of heartbeats times the
\* nominal interval.
C31_OrderedDisjointEvents ==
  justAggregated =>
    LET e == aggregatedEvents
    IN /\ \A i \in 1..(Len(e) - 1) :
            /\ e[i].timestamp <= e[i + 1].timestamp
            /\ e[i].timestamp + e[i].duration <= e[i + 1].timestamp
       /\ sumDurations(e, 1..Len(e))
            = Len(aggregatedHeartbeats) * aggregationInterval * MsPerMinute

\* The scenario's day: 09:00 and 09:15 active in Chrome, 09:30 inactive.
ChromeSample == [userActivity |-> "active", appWindow |-> [app |-> "Chrome", title |-> "Mail"]]
InactiveSample == [userActivity |-> "inactive", appWindow |-> NoAppWindow]
ScenarioHeartbeats ==
  <<Heartbeat(slotTime(0), ChromeSample), Heartbeat(slotTime(3), ChromeSample),
    Heartbeat(slotTime(6), InactiveSample)>>

\* C32: with interval = 15 minutes and heartbeats at 09:00 (active, Chrome), 09:15
\* (active, Chrome) and 09:30 (inactive), aggregation yields exactly two events, Chrome
\* for 30 minutes then inactive for 15 minutes, and the summary has 30 minutes
\* active, 15 minutes inactive and appUsage = {Chrome: 30 minutes}; an empty
\* heartbeat list yields no events and a zeroed summary.
C32_Scenario ==
  justAggregated =>
    LET entry == aggregationCache[aggregatedDay]
        e == entry.timelineEvents
    IN /\ (aggregationInterval = 15 /\ aggregatedHeartbeats = ScenarioHeartbeats) =>
            /\ Len(e) = 2
            /\ e[1].type = "appWindow" /\ e[1].data.app = "Chrome"
            /\ e[1].timestamp = slotTime(0)
            /\ e[1].duration = 30 * MsPerMinute
            /\ e[2].type = "inactive"
            /\ e[2].timestamp = slotTime(6)
            /\ e[2].duration = 15 * MsPerMinute
            /\ entry.summary.totalActiveDuration = 30 * MsPerMinute
            /\ entry.summary.totalInactiveDuration = 15 * MsPerMinute
            /\ DOMAIN entry.summary.appUsage = {"Chrome"}
            /\ entry.summary.appUsage["Chrome"] = 30 * MsPerMinute
       /\ aggregatedHeartbeats = <<>> =>
            /\ e = <<>>
            /\ entry.summary.activeTrackingDuration = 0
            /\ entry.summary.totalActiveDuration = 0
            /\ entry.summary.totalInactiveDuration = 0
            /\ entry.summary.totalMeetingDuration = 0
            /\ DOMAIN entry.summary.appUsage = {}

\* The scenario's day has been aggregated at 15 minutes.
C32_Witness ==
  /\ justAggregated
  /\ aggregationInterval = 15
  /\ aggregatedHeartbeats = ScenarioHeartbeats
  /\ Len(aggregatedEvents) = 2

\* C33: in a day built only by addHeartbeat calls with strictly increasing
\* timestamps from an empty day, no may_be_inactive heartbeat has an inactive
\* heartbeat at a later position without an active heartbeat between the two.
C33_NoUnresolvedGap ==
  LET h == ActivityState_getHeartbeats(days, PureDay)
  IN \A i \in 1..Len(h), j \in 1..Len(h) :
       (/\ i < j
        /\ h[i].data.userActivity = "may_be_inactive"
        /\ h[j].data.userActivity = "inactive")
         => \E k \in (i + 1)..(j - 1) : h[k].data.userActivity = "active"

\* A may_be_inactive heartbeat has been rewritten (an inactive heartbeat that still
\* carries the ambiguous sample's window) while an earlier one, before an active
\* heartbeat, is kept.
C33_Witness ==
  LET h == ActivityState_getHeartbeats(days, PureDay)
  IN \E i \in 1..Len(h), k \in 1..Len(h), j \in 1..Len(h) :
       /\ i < k /\ k < j
       /\ h[i].data.userActivity = "may_be_inactive"
       /\ h[k].data.userActivity = "active"
       /\ h[j].data.userActivity = "inactive"
       /\ h[j].data.appWindow.app = "Code"

\* Every stored heartbeat lies under the day key of its own timestamp.
filedByTimestamp(dayMap) ==
  \A k \in DOMAIN dayMap :
    \A i \in 1..Len(dayMap[k]) : getDateKey(dayMap[k][i].timestamp) = k

\* C34: after any sequence of startTracking, pauseTracking and incoming samples,
\* with the clock's day changing in either direction, every heartbeat stored
\* through the coordinator is filed under the day key of its own timestamp, and
\* currentDayKey is the day key of the most recently accepted sample or of the
\* last startTracking, whichever is later: each of the two sets it to the day of
\* the clock, and nothing else changes it.
C34_FiledUnderOwnDay ==
  [][/\ filedByTimestamp(days')
     /\ IF \/ stepOf("addHeartbeat") /\ isTracking
           \/ stepOf("startTracking") /\ ~isTracking
        THEN currentDayKey' = getDateKey(now)
        ELSE currentDayKey' = currentDayKey]_vars

\* A sample was accepted after the clock was set back over midnight: the store
\* holds heartbeats of the later day, and the sample moved currentDayKey to the
\* earlier one.
C34_Witness ==
  /\ Len(trace) > 0 /\ trace[1].op = "addHeartbeat"
  /\ \E i \in 1..Len(trace) : trace[i].op = "setCurrentDayKey" /\ trace[i].day = 0
  /\ currentDayKey = 0
  /\ 1 \in DOMAIN days /\ Len(days[1]) > 0
  /\ 0 \in DOMAIN days /\ Len(days[0]) > 0

\* The notifications of the status subscriber among the calls of a handler.
statusNotifications(calls) ==
  { i \in 1..Len(calls) : calls[i].op = "onTrackingStatusChange" }

\* C35: startTracking while tracking and pauseTracking while stopped change nothing
\* (no Scheduler call, no persist, no notification); the status subscriber is
\* notified exactly once per transition, with the new state, and at no other time,
\* so that the last notified value is the current tracking state.
C35_ExactTransitions ==
  [][/\ (\/ stepOf("startTracking") /\ isTracking
         \/ stepOf("pauseTracking") /\ ~isTracking)
          => /\ Len(trace') = 1
             /\ UNCHANGED <<facadeVars, storeVars, aggVars, trackerVars, schedVars,
                            hbVars, now>>
     /\ (isTracking' # isTracking /\ callbacksSet)
          => Cardinality(statusNotifications(trace')) = 1
     /\ (isTracking' # isTracking)
          => \/ stepOf("startTracking") /\ isTracking'
             \/ stepOf("pauseTracking") /\ ~isTracking'
     /\ \A i \in statusNotifications(trace') :
          /\ isTracking' # isTracking
          /\ trace'[i].flag = isTracking'
          /\ callbacksSet]_vars

\* A repeated startTracking after a notified start, followed by nothing else.
C35_Witness ==
  /\ callbacksSet
  /\ isTracking
  /\ trace = <<EvCall("startTracking")>>

\* C36: after any sequence of facade operations (startTracking, pauseTracking,
\* setAggregationInterval with valid values), the interval at which the Scheduler
\* fires its tick equals the aggregation interval getAggregationInterval() returns.
C36_SchedulerFollowsInterval ==
  schedInterval = aggregationInterval

\* Every heartbeat of dayMap is in the same day of other.
heartbeatsKept(dayMap, other) ==
  \A k \in DOMAIN dayMap :
    \A i \in 1..Len(dayMap[k]) :
      /\ k \in DOMAIN other
      /\ \E j \in 1..Len(other[k]) : other[k][j] = dayMap[k][i]

\* C37: a successful updateStoragePath to a directory that holds no store file (the
\* old file is moved) loses no data: every heartbeat that was in the in-memory
\* store before the call, heartbeats added since the last save included, is in the
\* in-memory store after it.
C37_MoveKeepsHeartbeats ==
  [][(/\ stepOf("updateStoragePath")
      /\ trace'[1].flag
      /\ storage.files[storage.dataFilePath] # NoFile
      /\ storage.files[storeFilePath(trace'[1].agg[1])] = NoFile)
       => heartbeatsKept(storage.data.days, storage'.data.days)]_vars

\* C38: after the in-memory store has been replaced or pruned (useExistingStoreFile,
\* updateStoragePath loading data from the new location, cleanupOldData deleting a
\* day), the facade's getDayData(day) returns timelineEvents that are the
\* aggregation of the heartbeats it returns: no cache entry computed from the
\* previous store contents is served.
C38_NoStaleEvents ==
  (Len(trace) > 0 /\ trace[1].op = "facade.getDayData") =>
    LET returned == trace[2].agg[1]
    IN returned.timelineEvents
         = generateTimelineEvents(returned.heartbeats, aggregationInterval)

\* C39: the single pending timer survives re-entrancy: when the callback itself has
\* called setInterval, or pause followed by start, then once the callback has
\* exited exactly one timeout is pending on a running Scheduler, and a later pause
\* leaves no timeout pending.
C39_ReentrantSingleTimer ==
  [][ /\ (stepOf("callback.exit") /\ sched'.isRunning)
         => pendingTimers(sched') = 1
      /\ (stepOf("scheduler.pause") /\ ~sched.inCallback)
         => pendingTimers(sched') = 0 ]_vars

====
